---------------------------- MODULE Spec2Model ----------------------------
(***************************************************************************)
(* Model of the scoring engine of chiron-ai                                *)
(* (src/src/utils/scoringAlgorithms.ts): analyzeResume with its            *)
(* FileReader-based text extraction, and analyzeInterviewPerformance with  *)
(* the response-content helpers; of the interview step of the React        *)
(* wizard (src/src/components/InterviewWizard.tsx); and of the interview   *)
(* of the standalone page (src/public/minimal.js).                         *)
(*                                                                         *)
(* Conventions.                                                            *)
(*  - JavaScript strings are TLA+ strings; an index is 1-based here and    *)
(*    0-based in the source, and every operator that returns or takes an   *)
(*    index says which one it uses.                                        *)
(*  - The interview sub-scores are JavaScript numbers that stop being      *)
(*    integers after a completion multiplier (x * 0.3 ...).  Every such    *)
(*    value is a multiple of 0.1, so a sub-score is held in TENTHS         *)
(*    (an integer 10 times the source's value), in exact arithmetic.  The  *)
(*    0-10 metrics of the response analysis are multiples of 0.5 and are   *)
(*    held in tenths too.  overallScore and atsScore are plain integers.   *)
(***************************************************************************)
EXTENDS Integers, Sequences, FiniteSets, TLC

VARIABLES
    rpc,            \* analyzeResume: position of the call ("idle" when unused)
    file,           \* analyzeResume: the File argument, or NullFile
    selectedRole,   \* analyzeResume: the role argument
    reader,         \* extractTextFromFile: state of the FileReader
    score,          \* analyzeResume: let score
    strengths,      \* analyzeResume: const strengths
    improvements,   \* analyzeResume: const improvements
    resumeResult,   \* value the analyzeResume promise resolved with, or NoResult
    ipc,            \* analyzeInterviewPerformance: "call" before, "done" after
    interviewData,  \* analyzeInterviewPerformance: the argument
    interviewResult, \* analyzeInterviewPerformance: the returned InterviewAnalysis
    wizard,         \* InterviewWizard: the useState values of the latest render
    startRender,    \* InterviewWizard: the render whose startInterview ran
    startTimeout,   \* InterviewWizard: the setTimeout made by startInterview
    countdownTimer, \* InterviewWizard: the interval behind countdownTimer.current
    analysisTimeout,\* InterviewWizard: the setTimeout made by endInterview
    state,          \* minimal.js: let state
    cameraRequest,  \* minimal.js: the getUserMedia promise startInterview awaits
    leakedTimers,   \* minimal.js: live intervals state.timer no longer refers to
    analysis        \* minimal.js: what analyzePerformance returned last

wizardVars == <<wizard, startRender, startTimeout, countdownTimer,
                analysisTimeout>>

minimalVars == <<state, cameraRequest, leakedTimers, analysis>>

vars == <<rpc, file, selectedRole, reader, score, strengths, improvements,
          resumeResult, ipc, interviewData, interviewResult, wizardVars,
          minimalVars>>

resumeVars == <<rpc, file, selectedRole, reader, score, strengths,
                improvements, resumeResult>>

interviewVars == <<ipc, interviewData, interviewResult>>

\* The wizard is not mounted.
WizardIdle ==
    /\ wizard = [mounted |-> FALSE]
    /\ startRender = [mounted |-> FALSE]
    /\ startTimeout = "none"
    /\ countdownTimer = "none"
    /\ analysisTimeout = "none"

\* The standalone page is not loaded.
MinimalIdle ==
    /\ state = [loaded |-> FALSE]
    /\ cameraRequest = "none"
    /\ leakedTimers = 0
    /\ analysis = [present |-> FALSE]

-----------------------------------------------------------------------------
(* Bounds of the model.                                                    *)

\* Largest totalQuestions / questionsAnswered / timing-list length drawn.
MaxQuestions == 7

\* Number of questions of a wizard interview (mockQuestions.length).
WizardQuestions == 3

\* The wizard's counters and its timing list stop growing here.
MaxRecorded == 5

-----------------------------------------------------------------------------
(* JavaScript number and string primitives.                                *)

Max(a, b) == IF a >= b THEN a ELSE b

Min(a, b) == IF a <= b THEN a ELSE b

\* Math.floor(a / b) for b > 0 (a may be negative).
FloorDiv(a, b) == a \div b

\* The character of s at 1-based position i, "" outside the string.
CharAt(s, i) == IF i >= 1 /\ i <= Len(s) THEN SubSeq(s, i, i) ELSE ""

UpperCase == <<"A", "B", "C", "D", "E", "F", "G", "H", "I", "J", "K", "L", "M",
               "N", "O", "P", "Q", "R", "S", "T", "U", "V", "W", "X", "Y", "Z">>

LowerCase == <<"a", "b", "c", "d", "e", "f", "g", "h", "i", "j", "k", "l", "m",
               "n", "o", "p", "q", "r", "s", "t", "u", "v", "w", "x", "y", "z">>

LowerChar(c) ==
    IF \E k \in 1..26 : UpperCase[k] = c
    THEN LowerCase[CHOOSE k \in 1..26 : UpperCase[k] = c]
    ELSE c

\* String.prototype.toLowerCase, character by character (the string is
\* halved at each level to keep the evaluation shallow).
RECURSIVE ToLowerCase(_)
ToLowerCase(s) ==
    IF Len(s) = 0 THEN ""
    ELSE IF Len(s) = 1 THEN LowerChar(s)
    ELSE LET half == Len(s) \div 2
         IN  ToLowerCase(SubSeq(s, 1, half)) \o ToLowerCase(SubSeq(s, half + 1, Len(s)))

\* String.prototype.includes
Includes(s, k) ==
    \E i \in 1..(Len(s) - Len(k) + 1) : SubSeq(s, i, i + Len(k) - 1) = k

\* String.prototype.lastIndexOf for a one-character k: 0-based, -1 if absent.
LastIndexOf(s, k) ==
    LET hits == {i \in 1..Len(s) : SubSeq(s, i, i) = k}
    IN  IF hits = {} THEN -1
        ELSE (CHOOSE i \in hits : \A j \in hits : j <= i) - 1

\* String.prototype.substring(start) with a 0-based start; a negative start
\* counts as 0.
Substring(s, start) == SubSeq(s, Max(start, 0) + 1, Len(s))

IsDigit(c) == c \in {"0", "1", "2", "3", "4", "5", "6", "7", "8", "9"}

IsSpace(c) == c \in {" ", "\t", "\n"}

\* The k characters of s from 1-based position i are all digits.
DigitsAt(s, i, k) == \A j \in i..(i + k - 1) : IsDigit(CharAt(s, j))

\* /\d{3}[-.]?\d{3}[-.]?\d{4}/.test(s)
PhonePattern(s) ==
    \E i \in 1..Len(s) :
        /\ DigitsAt(s, i, 3)
        /\ \E a \in {0, 1} :
            /\ a = 1 => CharAt(s, i + 3) \in {"-", "."}
            /\ DigitsAt(s, i + 3 + a, 3)
            /\ \E b \in {0, 1} :
                /\ b = 1 => CharAt(s, i + 6 + a) \in {"-", "."}
                /\ DigitsAt(s, i + 6 + a + b, 4)

\* String.prototype.trim
RECURSIVE Trim(_)
Trim(s) ==
    IF Len(s) = 0 THEN ""
    ELSE IF IsSpace(SubSeq(s, 1, 1)) THEN Trim(SubSeq(s, 2, Len(s)))
    ELSE IF IsSpace(SubSeq(s, Len(s), Len(s))) THEN Trim(SubSeq(s, 1, Len(s) - 1))
    ELSE s

\* s.split(d) for a set d of one-character separators: the pieces between
\* one separator (or the start) and the next (or the end), empty pieces
\* included.
Split(s, d) ==
    LET cuts == {0, Len(s) + 1} \cup {i \in 1..Len(s) : SubSeq(s, i, i) \in d}
        Nth(k) == CHOOSE c \in cuts : Cardinality({x \in cuts : x < c}) = k - 1
    IN  [k \in 1..(Cardinality(cuts) - 1) |-> SubSeq(s, Nth(k) + 1, Nth(k + 1) - 1)]

\* Array.prototype.filter(p).length, keep[i] being p of the i-th element.
CountWhere(keep) == Cardinality({i \in 1..Len(keep) : keep[i]})

\* s.split(k).length - 1: the occurrences of k taken left to right without
\* overlap; i is the 1-based position the search resumes at.
RECURSIVE OccurrencesFrom(_, _, _)
OccurrencesFrom(s, k, i) ==
    LET hits == {j \in i..(Len(s) - Len(k) + 1) : SubSeq(s, j, j + Len(k) - 1) = k}
    IN  IF hits = {} THEN 0
        ELSE LET first == CHOOSE j \in hits : \A h \in hits : j <= h
             IN  1 + OccurrencesFrom(s, k, first + Len(k))

Occurrences(s, k) == OccurrencesFrom(s, k, 1)

\* Array.prototype.reduce((a, b) => a + b, 0)
RECURSIVE Sum(_)
Sum(seq) == IF seq = <<>> THEN 0 ELSE Head(seq) + Sum(Tail(seq))

-----------------------------------------------------------------------------
(* analyzeResume: data.                                                    *)

\* The null File argument.
NullFile == [present |-> FALSE]

\* A File: its name, its size in bytes and the text readAsText yields.
MakeFile(name, size, text) ==
    [present |-> TRUE, name |-> name, size |-> size, text |-> text]

NoResult == [resolved |-> FALSE]

ResumeAnalysis(atsScore, feedback, strs, imps) ==
    [resolved |-> TRUE, atsScore |-> atsScore, feedback |-> feedback,
     strengths |-> strs, improvements |-> imps]

allowedTypes == <<".pdf", ".doc", ".docx">>

SupportedRoles == {"Software Engineer", "Product Manager", "Data Scientist",
                   "UX Designer", "Sales Representative", "Marketing Manager",
                   "Business Analyst", "DevOps Engineer"}

roleKeywords ==
    [r \in SupportedRoles |->
       CASE r = "Software Engineer" ->
              [required |-> <<"software", "development", "programming", "code">>,
               preferred |-> <<"javascript", "python", "react", "node", "git",
                               "api", "database", "frontend", "backend", "html",
                               "css">>,
               exclusions |-> <<"microsoft word", "data entry", "customer service">>]
         [] r = "Product Manager" ->
              [required |-> <<"product", "management", "strategy">>,
               preferred |-> <<"roadmap", "stakeholder", "agile", "analytics",
                               "user", "market", "launch", "metrics">>,
               exclusions |-> <<"coding", "programming", "technical implementation">>]
         [] r = "Data Scientist" ->
              [required |-> <<"data", "analysis", "statistics">>,
               preferred |-> <<"python", "machine learning", "sql", "modeling",
                               "visualization", "pandas", "numpy", "scikit">>,
               exclusions |-> <<"basic excel", "data entry", "administrative">>]
         [] r = "UX Designer" ->
              [required |-> <<"design", "user", "experience">>,
               preferred |-> <<"wireframe", "prototype", "usability", "research",
                               "figma", "sketch", "adobe", "user-centered">>,
               exclusions |-> <<"graphic design only", "print design",
                                "marketing design">>]
         [] r = "Sales Representative" ->
              [required |-> <<"sales", "revenue", "client">>,
               preferred |-> <<"relationship", "target", "crm", "negotiation",
                               "quota", "pipeline", "prospecting">>,
               exclusions |-> <<"cashier", "retail associate",
                                "customer service only">>]
         [] r = "Marketing Manager" ->
              [required |-> <<"marketing", "campaign", "brand">>,
               preferred |-> <<"digital", "analytics", "roi", "content",
                               "social media", "seo", "conversion">>,
               exclusions |-> <<"sales only", "administrative assistant",
                                "data entry">>]
         [] r = "Business Analyst" ->
              [required |-> <<"business", "analysis", "requirements">>,
               preferred |-> <<"process", "stakeholder", "documentation",
                               "workflow", "improvement", "metrics">>,
               exclusions |-> <<"basic admin", "data entry", "customer service">>]
         [] r = "DevOps Engineer" ->
              [required |-> <<"devops", "infrastructure", "deployment">>,
               preferred |-> <<"aws", "docker", "kubernetes", "ci/cd",
                               "automation", "monitoring", "cloud", "linux">>,
               exclusions |-> <<"basic IT support", "help desk",
                                "desktop support">>]]

\* roleKeywords[selectedRole] || { required: [], preferred: [], exclusions: [] }
RoleData(role) ==
    IF role \in SupportedRoles THEN roleKeywords[role]
    ELSE [required |-> <<>>, preferred |-> <<>>, exclusions |-> <<>>]

essentialSections == <<"experience", "education", "skills", "contact">>

\* The running state of one analyzeResume call: score, strengths, improvements.
Acc(sc, strs, imps) == [score |-> sc, strengths |-> strs, improvements |-> imps]

Award(acc, points, strength) ==
    Acc(acc.score + points, Append(acc.strengths, strength), acc.improvements)

\* Penalize without the floor at 0: a score range that holds for Penalize
\* and fails for this variant rests on the floor.
PenalizeUnclamped(acc, points, msg) ==
    Acc(acc.score - points, acc.strengths, Append(acc.improvements, msg))

\* improvements.push(msg); score = Math.max(score - points, 0)
Penalize(acc, points, msg) ==
    Acc(Max(acc.score - points, 0), acc.strengths, Append(acc.improvements, msg))

Advise(acc, msg) == Acc(acc.score, acc.strengths, Append(acc.improvements, msg))

\* file.name.toLowerCase().substring(file.name.lastIndexOf('.'))
FileExtension(name) == Substring(ToLowerCase(name), LastIndexOf(name, "."))

\* A format gate that also lets plain text through.
FormatAllowedWithTxt(ext) == ext \in {".pdf", ".doc", ".docx", ".txt"}

\* allowedTypes.includes(fileExtension)
FormatAllowed(ext) == \E i \in 1..Len(allowedTypes) : allowedTypes[i] = ext

\* The number of keywords found in the lowered text or in the file name.
KeywordsFound(keywords, lowerText, fileName) ==
    CountWhere([i \in 1..Len(keywords) |->
                  Includes(lowerText, keywords[i]) \/ Includes(fileName, keywords[i])])

-----------------------------------------------------------------------------
(* analyzeResume: the scoring steps, in source order.                      *)

\* 2. File size (the over-2MB early return is taken by the caller).
SizeStep(acc, size) ==
    IF size < 30000
    THEN Penalize(acc, 5, "CRITICAL: File too small - likely missing essential content")
    ELSE IF size >= 50000 /\ size <= 500000
    THEN Award(acc, 2, "Appropriate file size")
    ELSE acc

\* 3. Filename analysis; fileName is the lowered name.
NameStep(acc, fileName) ==
    IF ~Includes(fileName, "resume") /\ ~Includes(fileName, "cv")
    THEN Penalize(acc, 3,
             "MAJOR: Filename should contain 'resume' or 'CV' for ATS recognition")
    ELSE Award(acc, 2, "Professional filename")

UnprofessionalNameStep(acc, fileName) ==
    IF Includes(fileName, "draft") \/ Includes(fileName, "temp")
           \/ Includes(fileName, "copy")
    THEN Penalize(acc, 5,
             "CRITICAL: Remove draft/temp/copy from filename - appears unprofessional")
    ELSE acc

\* The required-keyword step without the reset of the score to 0.
RequiredStepNoReset(acc, role, lowerText, fileName) ==
    LET required == RoleData(role).required
        requiredFound == KeywordsFound(required, lowerText, fileName)
    IN  IF requiredFound = 0
        THEN Advise(acc, "CRITICAL: Missing ALL required keywords for " \o role)
        ELSE IF requiredFound < Len(required)
        THEN Penalize(acc, 15,
                 "MAJOR: Missing " \o ToString(Len(required) - requiredFound)
                     \o " required keywords")
        ELSE Award(acc, 10, "Contains required role keywords")

\* 5. Required keywords.
RequiredStep(acc, role, lowerText, fileName) ==
    LET required == RoleData(role).required
        requiredFound == KeywordsFound(required, lowerText, fileName)
    IN  IF requiredFound = 0
        THEN Acc(0, acc.strengths,
                 Append(acc.improvements,
                        "CRITICAL: Missing ALL required keywords for " \o role))
        ELSE IF requiredFound < Len(required)
        THEN Penalize(acc, 15,
                 "MAJOR: Missing " \o ToString(Len(required) - requiredFound)
                     \o " required keywords")
        ELSE Award(acc, 10, "Contains required role keywords")

\* preferredFound / preferred.length >= num / den; 0 / 0 is NaN, for which
\* every comparison is false.
PreferredAtLeast(found, total, num, den) ==
    total > 0 /\ found * den >= num * total

PreferredStep(acc, role, lowerText, fileName) ==
    LET preferred == RoleData(role).preferred
        preferredFound == KeywordsFound(preferred, lowerText, fileName)
        total == Len(preferred)
    IN  IF PreferredAtLeast(preferredFound, total, 7, 10)
        THEN Award(acc, 15, "Excellent keyword optimization")
        ELSE IF PreferredAtLeast(preferredFound, total, 5, 10)
        THEN Award(acc, 10, "Good keyword presence")
        ELSE IF PreferredAtLeast(preferredFound, total, 3, 10)
        THEN Acc(acc.score + 5, acc.strengths,
                 Append(acc.improvements, "Add more role-specific keywords"))
        ELSE Penalize(acc, 10, "MAJOR: Severely lacking role-specific keywords")

ExclusionStep(acc, role, lowerText, fileName) ==
    LET exclusionsFound == KeywordsFound(RoleData(role).exclusions, lowerText, fileName)
    IN  IF exclusionsFound > 0
        THEN Penalize(acc, exclusionsFound * 5,
                 "WARNING: Contains " \o ToString(exclusionsFound)
                     \o " irrelevant/negative keywords")
        ELSE acc

\* 6. Essential sections.
SectionsStep(acc, lowerText, fileName) ==
    LET sectionsFound ==
            CountWhere([i \in 1..Len(essentialSections) |->
                          \/ Includes(lowerText, essentialSections[i])
                          \/ Includes(lowerText, essentialSections[i] \o "s")
                          \/ Includes(fileName, essentialSections[i])])
    IN  IF sectionsFound < 3
        THEN Penalize(acc, 20,
                 "CRITICAL: Missing essential resume sections (Experience, Education, Skills, Contact)")
        ELSE Award(acc, 5, "Contains essential resume sections")

\* 7. Length analysis.
LengthStep(acc, size) ==
    LET estimatedWords == FloorDiv(size, 6)
    IN  IF estimatedWords < 200
        THEN Penalize(acc, 15,
                 "CRITICAL: Resume appears too brief - ATS expects 300-600 words minimum")
        ELSE IF estimatedWords > 1200
        THEN Penalize(acc, 10,
                 "MAJOR: Resume appears too lengthy - ATS prefers concise 1-2 pages")
        ELSE IF estimatedWords >= 300 /\ estimatedWords <= 800
        THEN Award(acc, 8, "Appropriate resume length")
        ELSE acc

\* 8. Contact information; textContent is the text as read (not lowered).
ContactStep(acc, textContent, fileName) ==
    LET hasEmail == Includes(textContent, "@") \/ Includes(fileName, "email")
        hasPhone == PhonePattern(textContent) \/ Includes(fileName, "phone")
    IN  IF ~hasEmail /\ ~hasPhone
        THEN Penalize(acc, 10, "CRITICAL: No contact information detected")
        ELSE IF ~hasEmail \/ ~hasPhone
        THEN Penalize(acc, 5, "MAJOR: Missing email or phone number")
        ELSE Award(acc, 3, "Contains contact information")

\* score = Math.min(score, 85)
CapStep(acc) == Acc(Min(acc.score, 85), acc.strengths, acc.improvements)

\* The banded feedback sentence of the final return.
ResumeFeedback(sc) ==
    IF sc = 0
    THEN "REJECTED: Resume fails basic ATS requirements. Cannot proceed to human review."
    ELSE IF sc < 20
    THEN "CRITICAL FAILURE (" \o ToString(sc) \o "%): Resume would be auto-rejected by ATS systems. Major restructuring required."
    ELSE IF sc < 40
    THEN "POOR (" \o ToString(sc) \o "%): Resume unlikely to pass ATS screening. Significant improvements needed in keywords, format, and content."
    ELSE IF sc < 60
    THEN "BELOW AVERAGE (" \o ToString(sc) \o "%): Resume has basic requirements but lacks optimization. May pass simple ATS but will rank low."
    ELSE IF sc < 75
    THEN "AVERAGE (" \o ToString(sc) \o "%): Resume meets most ATS requirements but needs refinement to stand out among candidates."
    ELSE "GOOD (" \o ToString(sc) \o "%): Resume well-optimized for ATS systems. Should pass most screening filters and reach human reviewers."

\* Steps 5 to 8 and the cap, run once the text has been read.
ScoreContent(acc, f, role, textContent) ==
    LET fileName == ToLowerCase(f.name)
        lowerText == ToLowerCase(textContent)
    IN  CapStep(
         ContactStep(
          LengthStep(
           SectionsStep(
            ExclusionStep(
             PreferredStep(
              RequiredStep(acc, role, lowerText, fileName),
              role, lowerText, fileName),
             role, lowerText, fileName),
            lowerText, fileName),
           f.size),
          textContent, fileName))

-----------------------------------------------------------------------------
(* analyzeResume: the call, as the steps of an async function.  The call   *)
(* runs synchronously up to `await extractTextFromFile(file)`; it resumes  *)
(* when the promise of extractTextFromFile settles.  That promise is       *)
(* resolved by reader.onload only: no onerror handler is installed and it  *)
(* is never rejected.                                                      *)

\* Steps 1 to 3 on what the previous call left in score, strengths and
\* improvements, as if these were not locals that every call initialises.
ScoreFileMetadataOnLeftovers(f) ==
    LET fileName == ToLowerCase(f.name)
    IN  UnprofessionalNameStep(
          NameStep(
            SizeStep(Award(Acc(score, strengths, improvements), 3,
                           "Acceptable file format"),
                     f.size),
            fileName),
          fileName)

\* The accumulated state after steps 1 to 3, for a file that passed the
\* format gate and the over-2MB gate.
ScoreFileMetadata(f) ==
    LET fileName == ToLowerCase(f.name)
    IN  UnprofessionalNameStep(
          NameStep(
            SizeStep(Acc(3, <<"Acceptable file format">>, <<>>), f.size),
            fileName),
          fileName)

FormatRejected ==
    ResumeAnalysis(0, "Resume format incompatible with ATS systems", <<>>,
        <<"CRITICAL: File format rejected by ATS - use PDF, DOC, or DOCX only",
          "ATS systems auto-reject non-standard formats">>)

SizeRejected ==
    ResumeAnalysis(5, "Resume file size exceeds ATS limits",
        <<"Acceptable file format">>,
        <<"CRITICAL: File too large - ATS systems reject files over 2MB">>)

\* A no-file result that gives no guidance.
NoFileResultSilent ==
    ResumeAnalysis(0,
        "CRITICAL: No resume uploaded. ATS systems immediately reject applications without resumes.",
        <<>>, <<>>)

NoFileResult ==
    ResumeAnalysis(0,
        "CRITICAL: No resume uploaded. ATS systems immediately reject applications without resumes.",
        <<>>,
        <<"Upload a resume in PDF, DOC, or DOCX format", "Ensure file is under 2MB",
          "Use standard resume format">>)

\* The promise resolves with r; the locals end as r shows them.
ResumeReturn(r) ==
    /\ rpc' = "done"
    /\ resumeResult' = r
    /\ score' = r.atsScore
    /\ strengths' = r.strengths
    /\ improvements' = r.improvements

\* The body of analyzeResume(file, selectedRole) up to its first return or
\* its await: what a call does before it gives the control back.
analyzeResume ==
    IF ~file.present
    THEN ResumeReturn(NoFileResult) /\ UNCHANGED reader
    ELSE IF ~FormatAllowed(FileExtension(file.name))
    THEN ResumeReturn(FormatRejected) /\ UNCHANGED reader
    ELSE IF file.size > 2000000
    THEN ResumeReturn(SizeRejected) /\ UNCHANGED reader
    ELSE LET acc == ScoreFileMetadata(file)
         IN  /\ score' = acc.score
             /\ strengths' = acc.strengths
             /\ improvements' = acc.improvements
             /\ rpc' = "awaiting"
             /\ reader' = "reading"      \* reader.readAsText(file)
             /\ UNCHANGED resumeResult

\* analyzeResume(file, selectedRole), up to its first return or its await.
AnalyzeResumeCall ==
    /\ rpc = "call"
    /\ analyzeResume
    /\ UNCHANGED <<file, selectedRole, interviewVars, wizardVars, minimalVars>>

\* reader.onload: resolve(result || ''), after which analyzeResume resumes
\* with textContent and runs to its final return.
ReaderOnLoad ==
    /\ rpc = "awaiting"
    /\ reader = "reading"
    /\ reader' = "loaded"
    /\ LET textContent == file.text
           acc == ScoreContent(Acc(score, strengths, improvements), file,
                               selectedRole, textContent)
       IN  ResumeReturn(ResumeAnalysis(acc.score, ResumeFeedback(acc.score),
                                       acc.strengths, acc.improvements))
    /\ UNCHANGED <<file, selectedRole, interviewVars, wizardVars, minimalVars>>

\* The read fails (the FileReader fires error, then loadend).  No handler
\* is installed for either, so the promise stays pending and analyzeResume
\* stays suspended at its await.
ReaderOnError ==
    /\ rpc = "awaiting"
    /\ reader = "reading"
    /\ reader' = "error"
    /\ UNCHANGED <<rpc, file, selectedRole, score, strengths, improvements,
                   resumeResult, interviewVars, wizardVars, minimalVars>>

-----------------------------------------------------------------------------
(* analyzeResume: the inputs drawn.                                        *)

ScenarioText ==
    "javascript react experience education skills contact jane@example.com 555-123-4567"

FullText ==
    "Software development, programming and code review. JavaScript, Python, React, Node, Git, API, database, frontend, backend, HTML, CSS. Experience. Education. Skills. Contact: Jane@Example.com 555.123.4567"

\* Every preferred keyword of the Product Manager profile and none of its
\* required ones, with three sections, an email address and a phone number.
PreferredOnlyText ==
    "Roadmap, stakeholder, agile, analytics, user, market, launch, metrics. Experience, education, skills. pm@example.com 555-123-4567"

ResumeTexts ==
    {"", ScenarioText, FullText, PreferredOnlyText,
     "software product roadmap stakeholder agile analytics experience education",
     "Product management strategy: roadmap, stakeholder, agile, analytics, user, market. Coding and programming. Skills, education, contact 5551234567",
     "data entry and customer service with Microsoft Word; mail me@home.org"}

ResumeNames ==
    {"resume_2024.pdf", "Jane_CV.DOCX", "Resume.Draft.copy.doc", "notes.txt",
     "portfolio", "phone_email_code.pdf"}

ResumeSizes == {1000, 3000, 6000, 40000, 200000, 600000, 2000001}

ResumeRoles == {"Software Engineer", "Product Manager", "Astronaut"}

ResumeFiles ==
    {NullFile} \cup
    {MakeFile(n, s, t) : n \in ResumeNames, s \in ResumeSizes, t \in ResumeTexts}

NoInterviewData == [present |-> FALSE]

NoAnalysis == [returned |-> FALSE]

InitResume ==
    /\ rpc = "call"
    /\ file \in ResumeFiles
    /\ selectedRole \in ResumeRoles
    /\ reader = "idle"
    /\ score = 0
    /\ strengths = <<>>
    /\ improvements = <<>>
    /\ resumeResult = NoResult
    /\ ipc = "idle"
    /\ interviewData = NoInterviewData
    /\ interviewResult = NoAnalysis
    /\ WizardIdle
    /\ MinimalIdle

NextResume == AnalyzeResumeCall \/ ReaderOnLoad \/ ReaderOnError

SpecResume == InitResume /\ [][NextResume]_vars

\* What the event loop does to a pending call, seen on rpc and reader only:
\* CallRuns is the step of AnalyzeResumeCall and ReadEnds the step of
\* ReaderOnLoad or ReaderOnError.
CallRuns == rpc = "call" /\ rpc' \in {"awaiting", "done"}

ReadEnds ==
    /\ rpc = "awaiting"
    /\ reader = "reading"
    /\ reader' \in {"loaded", "error"}

\* The event loop runs the call, and the FileReader always ends a read with
\* load or with error: each step that can happen does happen.
SpecResumeLive ==
    /\ InitResume
    /\ [][NextResume]_vars
    /\ WF_rpc(CallRuns)
    /\ WF_reader(ReadEnds)

-----------------------------------------------------------------------------
(* Response text analysis: what the helpers read off one response.         *)

IsWordChar(c) ==
    \/ IsDigit(c)
    \/ c = "_"
    \/ \E k \in 1..26 : UpperCase[k] = c \/ LowerCase[k] = c

\* /\bk\b/.test(s) for a k that starts and ends with a word character.
WordBounded(s, k) ==
    \E i \in 1..(Len(s) - Len(k) + 1) :
        /\ SubSeq(s, i, i + Len(k) - 1) = k
        /\ ~IsWordChar(CharAt(s, i - 1))
        /\ ~IsWordChar(CharAt(s, i + Len(k)))

\* /\d+k/.test(s): a digit directly followed by k.
DigitsThen(s, k) ==
    \E i \in 1..Len(s) :
        IsDigit(SubSeq(s, i, i)) /\ SubSeq(s, i + 1, Min(i + Len(k), Len(s))) = k

\* /\$\d+/.test(s)
DollarAmount(s) ==
    \E i \in 1..Len(s) : SubSeq(s, i, i) = "$" /\ IsDigit(CharAt(s, i + 1))

\* /\d+%|\$\d+|\d+ years/.test(s)
QuantifiedPattern(s) ==
    DigitsThen(s, "%") \/ DollarAmount(s) \/ DigitsThen(s, " years")

\* /\d+%|\$\d+|\d+ years|\d+ people|\d+ projects/.test(s)
MetricsPattern(s) ==
    QuantifiedPattern(s) \/ DigitsThen(s, " people") \/ DigitsThen(s, " projects")

\* response.toLowerCase().split(' ').filter(word => word.length > 0).length
WordCount(response) ==
    LET Counted(words) == CountWhere([i \in 1..Len(words) |-> Len(words[i]) > 0])
    IN  Counted(Split(ToLowerCase(response), {" "}))

\* response.split(/[.!?]+/): a run of terminators is one separator in the
\* source and yields empty pieces here; both callers discard a piece whose
\* trimmed length is 0.
SplitSentences(response) == Split(response, {".", "!", "?"})

\* response.split(/[.!?]+/).filter(s => s.trim().length > 0).length
SentenceCount(response) ==
    LET Counted(sentences) ==
            CountWhere([i \in 1..Len(sentences) |-> Len(Trim(sentences[i])) > 0])
    IN  Counted(SplitSentences(response))

getRoleKeywords(role) ==
    CASE role = "Software Engineer" ->
           <<"javascript", "python", "react", "api", "database", "algorithm",
             "framework", "debugging">>
      [] role = "Product Manager" ->
           <<"roadmap", "stakeholder", "metrics", "user research", "agile",
             "sprint", "feature">>
      [] role = "Data Scientist" ->
           <<"python", "machine learning", "statistics", "modeling",
             "data analysis", "visualization">>
      [] role = "UX Designer" ->
           <<"user experience", "wireframe", "prototype", "usability",
             "user research", "design thinking">>
      [] role = "Sales Representative" ->
           <<"revenue", "pipeline", "prospecting", "closing", "relationship",
             "quota", "crm">>
      [] role = "Marketing Manager" ->
           <<"campaign", "roi", "conversion", "analytics", "brand",
             "digital marketing">>
      [] role = "Business Analyst" ->
           <<"requirements", "process improvement", "stakeholder",
             "documentation", "analysis">>
      [] role = "DevOps Engineer" ->
           <<"aws", "docker", "kubernetes", "ci/cd", "infrastructure",
             "automation", "monitoring">>
      [] OTHER -> <<>>

\* roleKeywords.filter(k => response.toLowerCase().includes(k.toLowerCase())).length
KeywordMatches(response, role) ==
    LET Matched(lower, keywords) ==
            CountWhere([i \in 1..Len(keywords) |->
                          Includes(lower, ToLowerCase(keywords[i]))])
    IN  Matched(ToLowerCase(response), getRoleKeywords(role))

fillerPatterns == <<"um", "uh", "like", "you know", "actually", "basically">>

\* The filler occurrences counted in one response.
FillerCount(response) ==
    LET lower == ToLowerCase(response)
    IN  Sum([i \in 1..Len(fillerPatterns) |-> Occurrences(lower, fillerPatterns[i])])

\* The pieces counted as incomplete thoughts in one response: trimmed length
\* over 10 and not ending in a terminator (no piece of the split holds one).
IncompleteCount(response) ==
    LET Incomplete(p) == Len(p) > 10 /\ CharAt(p, Len(p)) \notin {".", "!", "?"}
        Counted(sentences) ==
            CountWhere([i \in 1..Len(sentences) |-> Incomplete(Trim(sentences[i]))])
    IN  Counted(SplitSentences(response))

HasGrammarError(response) ==
    \/ Includes(response, "was were")
    \/ Includes(response, "is are")
    \/ WordBounded(response, "i is")
    \/ WordBounded(response, "you was")
    \/ WordBounded(response, "they was")

-----------------------------------------------------------------------------
(* The responses drawn, and the facts of each, read off its text once.     *)

ShortResponse == "um I like code"

PlainResponse ==
    "I worked on the billing service for a while. We moved it to a new database. It went fine"

RamblingResponse ==
    "um uh you know they was late and i is sorry about that, like, basically we was were behind actually"

StrongResponse ==
    "I led the migration of our JavaScript and React frontend to a new API framework. For example, I successfully cut page load time by 40% within 2 years of joining! The main problem was a slow database query, and my approach was debugging each algorithm in Python before shipping the solution. We had 12 people on 3 projects and saved $5000 a month. I achieved this by measuring first, then changing one thing at a time, and then measuring again so that every change was justified."

ResponseCatalogue ==
    {ShortResponse, PlainResponse, RamblingResponse, StrongResponse}

InterviewRoles == {"Software Engineer", "Astronaut"}

ResponseFacts ==
    [r \in ResponseCatalogue |->
       [words        |-> WordCount(r),
        quantified   |-> \/ Includes(r, "example")
                         \/ Includes(r, "specifically")
                         \/ QuantifiedPattern(r),
        sentences    |-> SentenceCount(r),
        confident    |-> \/ Includes(r, "I successfully")
                         \/ Includes(r, "I achieved")
                         \/ Includes(r, "I led"),
        keywords     |-> [role \in InterviewRoles |-> KeywordMatches(r, role)],
        fillers      |-> FillerCount(r),
        incomplete   |-> IncompleteCount(r),
        grammarError |-> HasGrammarError(r),
        problem      |-> \/ Includes(r, "problem") \/ Includes(r, "challenge")
                         \/ Includes(r, "solution") \/ Includes(r, "approach"),
        metrics      |-> MetricsPattern(r)]]

-----------------------------------------------------------------------------
(* analyzeResponseContent, analyzeGrammarAndSpeech,                        *)
(* analyzeSkillsDemonstration.  Metrics are in tenths of the 0-10 scale.   *)

ZeroMetrics ==
    [qualityScore |-> 0, communicationScore |-> 0, skillsRelevance |-> 0,
     clarity |-> 0, confidence |-> 0]

BaselineMetrics ==
    [qualityScore |-> 50, communicationScore |-> 50, skillsRelevance |-> 50,
     clarity |-> 50, confidence |-> 50]

\* The body of responses.forEach without its Math.min(..., 10) and
\* Math.max(..., 0).
ContentStepUnclamped(m, response, role) ==
    LET Quality(f) ==
            LET Bonus(q) == IF f.quantified THEN q + 15 ELSE q
            IN  Bonus(IF f.words < 10 THEN m.qualityScore - 20
                      ELSE IF f.words > 50 THEN m.qualityScore + 10
                      ELSE m.qualityScore)
        Relevance(f) ==
            LET Keywords(sk, keywordMatches) ==
                    IF keywordMatches > 0 THEN sk + keywordMatches * 5 ELSE sk
            IN  Keywords(IF f.quantified THEN m.skillsRelevance + 10
                         ELSE m.skillsRelevance,
                         f.keywords[role])
        Updated(f) ==
            [qualityScore |-> Quality(f),
             communicationScore |-> IF f.sentences > 2
                                    THEN m.communicationScore + 5
                                    ELSE m.communicationScore,
             skillsRelevance |-> Relevance(f),
             clarity |-> IF f.sentences > 2 THEN m.clarity + 5 ELSE m.clarity,
             confidence |-> IF f.confident THEN m.confidence + 10
                            ELSE m.confidence]
    IN  Updated(ResponseFacts[response])

\* The body of responses.forEach in analyzeResponseContent.
ContentStep(m, response, role) ==
    LET Quality(f) ==
            LET Bonus(q) == IF f.quantified THEN Min(q + 15, 100) ELSE q
            IN  Bonus(IF f.words < 10 THEN Max(m.qualityScore - 20, 0)
                      ELSE IF f.words > 50 THEN Min(m.qualityScore + 10, 100)
                      ELSE m.qualityScore)
        Relevance(f) ==
            LET Keywords(sk, keywordMatches) ==
                    IF keywordMatches > 0 THEN Min(sk + keywordMatches * 5, 100) ELSE sk
            IN  Keywords(IF f.quantified THEN Min(m.skillsRelevance + 10, 100)
                         ELSE m.skillsRelevance,
                         f.keywords[role])
        Updated(f) ==
            [qualityScore |-> Quality(f),
             communicationScore |-> IF f.sentences > 2
                                    THEN Min(m.communicationScore + 5, 100)
                                    ELSE m.communicationScore,
             skillsRelevance |-> Relevance(f),
             clarity |-> IF f.sentences > 2 THEN Min(m.clarity + 5, 100) ELSE m.clarity,
             confidence |-> IF f.confident THEN Min(m.confidence + 10, 100)
                            ELSE m.confidence]
    IN  Updated(ResponseFacts[response])

RECURSIVE ContentFold(_, _, _)
ContentFold(m, responses, role) ==
    IF responses = <<>> THEN m
    ELSE ContentFold(ContentStep(m, Head(responses), role), Tail(responses), role)

\* analyzeResponseContent without its early return for no responses.
BaselineForNoResponses(responses, role) ==
    ContentFold(BaselineMetrics, responses, role)

\* Every metric is a multiple of 0.5, so Math.round(x * 10) / 10 returns x.
analyzeResponseContent(responses, role) ==
    IF Len(responses) = 0 THEN ZeroMetrics
    ELSE ContentFold(BaselineMetrics, responses, role)

analyzeGrammarAndSpeech(responses) ==
    LET Counted(facts) ==
            [fillerWords |-> Sum([i \in 1..Len(facts) |-> facts[i].fillers]),
             incompleteThoughts |-> Sum([i \in 1..Len(facts) |-> facts[i].incomplete]),
             grammarErrors |-> CountWhere([i \in 1..Len(facts) |-> facts[i].grammarError])]
    IN  Counted([i \in 1..Len(responses) |-> ResponseFacts[responses[i]]])

\* The body of responses.forEach in analyzeSkillsDemonstration; d holds
\* technicalAccuracy, industryKnowledge and problemSolving in tenths.
SkillsStep(d, response, role) ==
    LET Updated(f, technicalTerms) ==
            [technicalAccuracy |-> IF technicalTerms > 0
                                   THEN Min(d.technicalAccuracy + technicalTerms * 5, 100)
                                   ELSE d.technicalAccuracy,
             industryKnowledge |-> IF technicalTerms > 0
                                   THEN Min(d.industryKnowledge + technicalTerms * 3, 100)
                                   ELSE d.industryKnowledge,
             problemSolving |-> IF f.problem THEN Min(d.problemSolving + 10, 100)
                                ELSE d.problemSolving,
             specificExamples |-> d.specificExamples + (IF f.metrics THEN 1 ELSE 0)]
        WithFacts(f) == Updated(f, f.keywords[role])
    IN  WithFacts(ResponseFacts[response])

RECURSIVE SkillsFold(_, _, _)
SkillsFold(d, responses, role) ==
    IF responses = <<>> THEN d
    ELSE SkillsFold(SkillsStep(d, Head(responses), role), Tail(responses), role)

\* overallCompetency is the mean of three tenth-valued numbers rounded to one
\* decimal (Math.round, half up): round(sum / 3) in tenths.
analyzeSkillsDemonstration(responses, role) ==
    LET Competency(d, total) ==
            [technicalAccuracy |-> d.technicalAccuracy,
             industryKnowledge |-> d.industryKnowledge,
             problemSolving |-> d.problemSolving,
             specificExamples |-> d.specificExamples,
             overallCompetency |-> (2 * total + 3) \div 6]
        Demonstrated(d) ==
            Competency(d, d.technicalAccuracy + d.industryKnowledge + d.problemSolving)
    IN  Demonstrated(SkillsFold([technicalAccuracy |-> 30, industryKnowledge |-> 30,
                                 problemSolving |-> 30, specificExamples |-> 0],
                                responses, role))

-----------------------------------------------------------------------------
(* analyzeInterviewPerformance.  Sub-scores are in tenths; the comparisons *)
(* of completionRate and avgTimePerQuestion are made on the fractions they *)
(* are, without dividing.                                                  *)

\* completionRate < num / den, for completionRate = answered / total.  With
\* total = 0 the rate is Infinity or NaN, below nothing.
RateBelow(answered, total, num, den) ==
    total > 0 /\ answered * den < num * total

\* completionRate >= num / den; Infinity (answered > 0 = total) is, NaN is not.
RateAtLeast(answered, total, num, den) ==
    IF total > 0 THEN answered * den >= num * total ELSE answered > 0

\* avgTimePerQuestion < t, the average being 0 for an empty list.
AvgBelow(times, t) ==
    IF Len(times) > 0 THEN Sum(times) < t * Len(times) ELSE 0 < t

\* avgTimePerQuestion > t
AvgAbove(times, t) ==
    IF Len(times) > 0 THEN Sum(times) > t * Len(times) ELSE 0 > t

\* score = Math.max(score * (tenths / 10), 0); improvements.push(msg)
Scale(acc, tenths, msg) ==
    Acc(Max((acc.score * tenths) \div 10, 0), acc.strengths,
        Append(acc.improvements, msg))

Praise(acc, msg) == Acc(acc.score, Append(acc.strengths, msg), acc.improvements)

SetScore(acc, sc) == Acc(sc, acc.strengths, acc.improvements)

\* The completion band of the body language score (camera on).
BodyBand(acc, d) ==
    LET qa == d.questionsAnswered
        tq == d.totalQuestions
    IN  IF qa = 0
        THEN Advise(SetScore(acc, 0),
                 "CRITICAL: No responses despite camera - shows complete disengagement")
        ELSE IF RateBelow(qa, tq, 3, 10)
        THEN Advise(SetScore(acc, 20),
                 "SEVERE: Answered <30% questions - appears uninterested or unprepared")
        ELSE IF RateBelow(qa, tq, 5, 10)
        THEN Advise(SetScore(acc, 50),
                 "POOR: <50% completion suggests nervousness or lack of preparation")
        ELSE IF RateBelow(qa, tq, 7, 10)
        THEN Advise(SetScore(acc, 120),
                 "BELOW AVERAGE: Complete at least 70% to show engagement")
        ELSE IF RateBelow(qa, tq, 8, 10)
        THEN Advise(SetScore(acc, 250),
                 "AVERAGE: Aim for 80%+ completion for professional impression")
        ELSE IF RateBelow(qa, tq, 95, 100)
        THEN Praise(SetScore(acc, 450), "Good visual engagement")
        ELSE Praise(SetScore(acc, 600), "Excellent visual participation")

\* Rushed (< 8 s) and brief (< 15 s) answers.
BodyTiming(acc, d) ==
    LET times == d.timeSpentPerQuestion
        rushResponses == CountWhere([i \in 1..Len(times) |-> times[i] < 8])
        shortResponses == CountWhere([i \in 1..Len(times) |-> times[i] < 15])
    IN  IF rushResponses * 10 > d.questionsAnswered * 4
        THEN Penalize(acc, 250,
                 "MAJOR: Too many rushed responses (<8s) - shows panic or disinterest")
        ELSE IF shortResponses * 10 > d.questionsAnswered * 6
        THEN Penalize(acc, 150,
                 "WARNING: Many brief responses - provide more thoughtful answers")
        ELSE acc

BodyQualityBonus(acc, responseAnalysis) ==
    IF responseAnalysis.qualityScore > 70
    THEN Praise(SetScore(acc, Min(acc.score + 150, 1000)),
                "Confident delivery with quality content")
    ELSE IF responseAnalysis.qualityScore > 50
    THEN SetScore(acc, Min(acc.score + 80, 850))
    ELSE acc

\* The body language block without its camera gate.
BodyLanguageUngated(acc, d, responseAnalysis) ==
    BodyQualityBonus(BodyTiming(BodyBand(acc, d), d), responseAnalysis)

\* Body Language Score; acc carries the lists the block appends to.
BodyLanguageBlock(acc, d, responseAnalysis) ==
    IF ~d.cameraUsed
    THEN Advise(Advise(SetScore(acc, 0),
                   "CRITICAL: Camera disabled - cannot assess professional presence"),
                "Modern interviews require video presence")
    ELSE BodyQualityBonus(BodyTiming(BodyBand(acc, d), d), responseAnalysis)

GrammarIssuesStep(acc, d) ==
    LET Fillers(a, grammarIssues, n) ==
            IF grammarIssues.fillerWords > n * 2
            THEN Penalize(a, 200,
                     "MAJOR: Excessive filler words (um, uh, like) - practice fluency")
            ELSE a
        Incomplete(a, grammarIssues, n) ==
            IF grammarIssues.incompleteThoughts * 10 > n * 3
            THEN Penalize(a, 150,
                     "WARNING: Many incomplete thoughts - practice structured responses")
            ELSE a
        Errors(a, grammarIssues, n) ==
            IF grammarIssues.grammarErrors * 10 > n * 2
            THEN Penalize(a, 100,
                     "NOTE: Grammar issues detected - review professional communication")
            ELSE a
        Issues(grammarIssues, n) ==
            Errors(Incomplete(Fillers(acc, grammarIssues, n), grammarIssues, n),
                   grammarIssues, n)
    IN  Issues(analyzeGrammarAndSpeech(d.responses), Len(d.responses))

GrammarLengthStep(acc, d) ==
    IF AvgBelow(d.timeSpentPerQuestion, 10)
    THEN Penalize(acc, 250,
             "SEVERE: Responses too brief to demonstrate communication skills")
    ELSE IF AvgBelow(d.timeSpentPerQuestion, 20)
    THEN Penalize(acc, 150, "POOR: Very brief responses - elaborate with examples")
    ELSE IF AvgAbove(d.timeSpentPerQuestion, 120)
    THEN Penalize(acc, 100, "WARNING: Responses too lengthy - practice conciseness")
    ELSE acc

\* The grammar completion multipliers with the two bands exchanged.
GrammarCompletionSwapped(acc, d) ==
    IF RateBelow(d.questionsAnswered, d.totalQuestions, 5, 10)
    THEN Scale(acc, 6,
             "MAJOR: Inconsistent participation affects communication evaluation")
    ELSE IF RateBelow(d.questionsAnswered, d.totalQuestions, 7, 10)
    THEN Scale(acc, 3,
             "CRITICAL: Low completion severely limits communication assessment")
    ELSE acc

GrammarCompletionStep(acc, d) ==
    IF RateBelow(d.questionsAnswered, d.totalQuestions, 5, 10)
    THEN Scale(acc, 3,
             "CRITICAL: Low completion severely limits communication assessment")
    ELSE IF RateBelow(d.questionsAnswered, d.totalQuestions, 7, 10)
    THEN Scale(acc, 6,
             "MAJOR: Inconsistent participation affects communication evaluation")
    ELSE acc

GrammarClarityStep(acc, responseAnalysis) ==
    IF responseAnalysis.clarity > 80
    THEN Praise(acc, "Excellent clarity and articulation")
    ELSE IF responseAnalysis.clarity > 60
    THEN Praise(acc, "Good communication clarity")
    ELSE Advise(acc, "IMPROVE: Work on clearer articulation and structure")

\* The grammar block gated on the camera as well as on the microphone.
GrammarBlockCameraGated(acc, d, responseAnalysis) ==
    IF ~d.microphoneUsed \/ ~d.cameraUsed
    THEN Advise(Advise(SetScore(acc, 0),
                   "CRITICAL: Microphone disabled - cannot assess communication"),
                "Professional roles require verbal communication skills")
    ELSE IF d.questionsAnswered = 0
    THEN Advise(SetScore(acc, 0), "CRITICAL: No verbal responses detected")
    ELSE GrammarClarityStep(
           GrammarCompletionStep(
             GrammarLengthStep(
               GrammarIssuesStep(
                 SetScore(acc, responseAnalysis.communicationScore * 10), d),
               d),
             d),
           responseAnalysis)

\* Grammar & Speech Score.  Math.floor(communicationScore * 10) of a metric
\* that is a multiple of 0.5 is the metric times 10.
GrammarBlock(acc, d, responseAnalysis) ==
    IF ~d.microphoneUsed
    THEN Advise(Advise(SetScore(acc, 0),
                   "CRITICAL: Microphone disabled - cannot assess communication"),
                "Professional roles require verbal communication skills")
    ELSE IF d.questionsAnswered = 0
    THEN Advise(SetScore(acc, 0), "CRITICAL: No verbal responses detected")
    ELSE GrammarClarityStep(
           GrammarCompletionStep(
             GrammarLengthStep(
               GrammarIssuesStep(
                 SetScore(acc, responseAnalysis.communicationScore * 10), d),
               d),
             d),
           responseAnalysis)

SkillsDemonstrationStep(acc, skillsDemonstration) ==
    LET Technical(a) ==
            IF skillsDemonstration.technicalAccuracy < 30
            THEN Penalize(a, 300,
                     "MAJOR: Lacks technical accuracy for role requirements")
            ELSE a
        Industry(a) ==
            IF skillsDemonstration.industryKnowledge < 40
            THEN Penalize(a, 200, "WARNING: Limited industry knowledge demonstrated")
            ELSE a
        Problems(a) ==
            IF skillsDemonstration.problemSolving < 30
            THEN Penalize(a, 250, "CRITICAL: Poor problem-solving approach shown")
            ELSE a
        Examples(a) ==
            IF skillsDemonstration.specificExamples < 2
            THEN Penalize(a, 150,
                     "MAJOR: Provide specific examples to demonstrate experience")
            ELSE a
    IN  Examples(Problems(Industry(Technical(acc))))

SkillsCompletionStep(acc, d) ==
    IF RateBelow(d.questionsAnswered, d.totalQuestions, 4, 10)
    THEN Scale(acc, 2, "SEVERE: Insufficient responses to evaluate competency")
    ELSE IF RateBelow(d.questionsAnswered, d.totalQuestions, 6, 10)
    THEN Scale(acc, 5, "POOR: Need more responses to showcase abilities")
    ELSE IF RateBelow(d.questionsAnswered, d.totalQuestions, 8, 10)
    THEN Scale(acc, 7, "AVERAGE: Complete more to fully demonstrate skills")
    ELSE acc

SkillsDepthStep(acc, d) ==
    IF AvgBelow(d.timeSpentPerQuestion, 20)
    THEN Penalize(acc, 200, "MAJOR: Responses too brief to show expertise depth")
    ELSE IF AvgBelow(d.timeSpentPerQuestion, 30)
    THEN Penalize(acc, 100, "WARNING: Provide more detailed technical examples")
    ELSE acc

SkillsCompetencyStep(acc, d, skillsDemonstration) ==
    IF skillsDemonstration.overallCompetency > 80
    THEN Praise(acc, "Excellent " \o d.selectedRole \o " expertise demonstrated")
    ELSE IF skillsDemonstration.overallCompetency > 60
    THEN Praise(acc, "Good role-specific knowledge shown")
    ELSE Advise(acc, "IMPROVE: Strengthen role-specific competencies")

\* Skills Score.
SkillsBlock(acc, d, responseAnalysis) ==
    LET Assessed(skillsDemonstration) ==
            SkillsCompetencyStep(
              SkillsDepthStep(
                SkillsCompletionStep(
                  SkillsDemonstrationStep(
                    SetScore(acc, responseAnalysis.skillsRelevance * 10),
                    skillsDemonstration),
                  d),
                d),
              d, skillsDemonstration)
    IN  IF d.questionsAnswered = 0
        THEN Advise(Advise(SetScore(acc, 0),
                       "CRITICAL: Cannot assess skills without responses"),
                    "Complete interview to demonstrate competencies")
        ELSE Assessed(analyzeSkillsDemonstration(d.responses, d.selectedRole))

ConfidenceCompletionStep(acc, d) ==
    IF RateBelow(d.questionsAnswered, d.totalQuestions, 3, 10)
    THEN Scale(acc, 1, "SEVERE: Very low completion suggests extreme nervousness")
    ELSE IF RateBelow(d.questionsAnswered, d.totalQuestions, 5, 10)
    THEN Scale(acc, 3, "POOR: Low completion indicates confidence issues")
    ELSE IF RateBelow(d.questionsAnswered, d.totalQuestions, 7, 10)
    THEN Scale(acc, 6, "BELOW AVERAGE: Build confidence through better preparation")
    ELSE acc

ConfidenceTimingStep(acc, d, responseAnalysis) ==
    IF AvgBelow(d.timeSpentPerQuestion, 8)
    THEN Penalize(acc, 300,
             "MAJOR: Rushed responses suggest panic or lack of preparation")
    ELSE IF AvgBelow(d.timeSpentPerQuestion, 15)
    THEN Penalize(acc, 150, "WARNING: Brief responses may indicate nervousness")
    ELSE IF ~AvgBelow(d.timeSpentPerQuestion, 30) /\ responseAnalysis.clarity > 60
    THEN Praise(SetScore(acc, Min(acc.score + 100, 1000)),
                "Confident, well-structured responses")
    ELSE acc

ConfidenceConsistencyStep(acc, d) ==
    IF d.interviewCompleted
           /\ RateAtLeast(d.questionsAnswered, d.totalQuestions, 9, 10)
    THEN Praise(SetScore(acc, Min(acc.score + 150, 1000)),
                "Excellent confidence through complete participation")
    ELSE acc

\* Confidence Score.
ConfidenceBlock(acc, d, responseAnalysis) ==
    IF ~d.cameraUsed \/ ~d.microphoneUsed
    THEN Advise(SetScore(acc, 0),
             "CRITICAL: Cannot assess confidence without full A/V setup")
    ELSE IF d.questionsAnswered = 0
    THEN Advise(SetScore(acc, 0),
             "CRITICAL: No engagement indicates lack of confidence")
    ELSE ConfidenceConsistencyStep(
           ConfidenceTimingStep(
             ConfidenceCompletionStep(
               SetScore(acc, responseAnalysis.confidence * 10), d),
             d, responseAnalysis),
           d)

\* Math.floor in the place of Math.round.
OverallScoreFloor(sumTenths) == sumTenths \div 40

\* Math.round(sum / 4) for the sum, in tenths, of the four sub-scores:
\* floor(sum / 40 + 1 / 2).
OverallScore(sumTenths) == (sumTenths + 20) \div 40

\* Number.prototype.toFixed(1) of num / den (num >= 0), rounding half up;
\* x / 0 prints as Infinity, 0 / 0 as NaN.
ToFixed1(num, den) ==
    IF den = 0 THEN (IF num = 0 THEN "NaN" ELSE "Infinity")
    ELSE LET t == (2 * 10 * num + den) \div (2 * den)
         IN  ToString(t \div 10) \o "." \o ToString(t % 10)

\* The banded feedback sentence.
InterviewFeedback(overallScore, d) ==
    LET pct == "(" \o ToString(overallScore) \o "%)"
        completion == ToFixed1(100 * d.questionsAnswered, d.totalQuestions) \o "%"
        avgTime == IF Len(d.timeSpentPerQuestion) > 0
                   THEN ToFixed1(Sum(d.timeSpentPerQuestion), Len(d.timeSpentPerQuestion))
                   ELSE "0.0"
    IN  IF overallScore = 0
        THEN "INTERVIEW FAILURE: Complete lack of professional interview readiness. Cannot recommend for any position without fundamental improvements in setup, preparation, and engagement."
        ELSE IF overallScore < 15
        THEN "SEVERE DEFICIENCY " \o pct \o ": Performance indicates fundamental lack of interview skills and professional readiness. Completed " \o completion \o " with " \o avgTime \o "s avg response time. Requires comprehensive interview training, technical setup review, and extensive practice before attempting real interviews."
        ELSE IF overallScore < 30
        THEN "POOR PERFORMANCE " \o pct \o ": Interview demonstrates significant preparation and communication deficiencies. " \o completion \o " completion rate with " \o avgTime \o "s responses indicates either technical difficulties or inadequate preparation. Must address: " \o (IF ~d.cameraUsed THEN "video setup," ELSE "") \o " " \o (IF ~d.microphoneUsed THEN "audio setup," ELSE "") \o " response quality, and professional communication standards."
        ELSE IF overallScore < 50
        THEN "BELOW STANDARD " \o pct \o ": Basic interview participation detected but falls short of professional expectations. " \o completion \o " completion with " \o avgTime \o "s avg responses. While technical setup appears functional, content quality, communication skills, and confidence need substantial improvement. Focus on STAR method, industry knowledge, and structured responses."
        ELSE IF overallScore < 65
        THEN "AVERAGE PERFORMANCE " \o pct \o ": Demonstrates adequate interview skills with " \o completion \o " completion and " \o avgTime \o "s response times. Shows basic professional communication and role understanding. To excel: add specific quantifiable examples, demonstrate deeper technical expertise, improve response structure, and show greater enthusiasm for the role."
        ELSE IF overallScore < 80
        THEN "GOOD PERFORMANCE " \o pct \o ": Strong interview showing with " \o completion \o " completion rate and " \o avgTime \o "s thoughtful responses. Demonstrates professional communication, role competency, and good interview presence. Minor improvements: more specific metrics in examples, stronger technical depth, and enhanced storytelling to differentiate from other candidates."
        ELSE "EXCELLENT PERFORMANCE " \o pct \o ": Outstanding interview demonstration with " \o completion \o " completion and " \o avgTime \o "s well-structured responses. Shows exceptional professional presence, clear communication, strong role expertise, and interview confidence. Performance indicates strong candidacy for " \o d.selectedRole \o " positions. Continue leveraging these strengths in real interviews."

\* The InterviewAnalysis returned for interviewData d (sub-scores in tenths).
analyzeInterviewPerformance(d) ==
    LET Return(body, grammar, skills, confidence, overallScore) ==
            [returned |-> TRUE,
             overallScore |-> overallScore,
             bodyLanguageScore |-> body.score,
             grammarScore |-> grammar.score,
             skillsScore |-> skills.score,
             confidenceScore |-> confidence.score,
             feedback |-> InterviewFeedback(overallScore, d),
             strengths |-> confidence.strengths,
             improvements |-> confidence.improvements]
        Overall(body, grammar, skills, confidence) ==
            Return(body, grammar, skills, confidence,
                   OverallScore(body.score + grammar.score + skills.score
                                + confidence.score))
        Confidence(ra, body, grammar, skills) ==
            Overall(body, grammar, skills, ConfidenceBlock(skills, d, ra))
        Skills(ra, body, grammar) ==
            Confidence(ra, body, grammar, SkillsBlock(grammar, d, ra))
        Grammar(ra, body) == Skills(ra, body, GrammarBlock(body, d, ra))
        Body(ra) == Grammar(ra, BodyLanguageBlock(Acc(0, <<>>, <<>>), d, ra))
    IN  Body(analyzeResponseContent(d.responses, d.selectedRole))

-----------------------------------------------------------------------------
(* analyzeInterviewPerformance: the call and the inputs drawn.             *)

\* The function is synchronous: one step from the call to the return.
AnalyzeInterview ==
    /\ ipc = "call"
    /\ ipc' = "done"
    /\ interviewResult' = analyzeInterviewPerformance(interviewData)
    /\ UNCHANGED <<interviewData, resumeVars, wizardVars, minimalVars>>

\* Per-question times in seconds: rushed, brief, in the sweet spot, too long.
TimeValues == {5, 12, 35, 130}

\* Timing lists of up to MaxQuestions entries.  The scorer reads the list
\* through its length, its sum and two filter counts only, so one list per
\* multiset (the non-decreasing one) is drawn, of at most two different
\* times.
SortedTimeLists(n) ==
    {t \in [1..n -> TimeValues] :
        /\ \A i \in 1..(n - 1) : t[i] <= t[i + 1]
        /\ Cardinality({t[i] : i \in 1..n}) <= 2}

TimeLists == UNION {{t : t \in SortedTimeLists(n)} : n \in 0..MaxQuestions}

\* The timing lists drawn for a session with the given questionsAnswered:
\* the empty list, and lists with one entry per answer, one entry fewer (a
\* missing entry) or one more (the unanswered last question, which the
\* wizard's endInterview records).
TimeListsFor ==
    [answered \in 0..MaxQuestions |->
       {t : t \in {u \in TimeLists :
                      Len(u) = 0 \/ Len(u) \in (answered - 1)..(answered + 1)}}]

MakeSession(role, responses) == [selectedRole |-> role, responses |-> responses]

\* The role and the responses drawn together: no response text (the way
\* InterviewWizard calls the scorer), weak answers, mixed answers, strong
\* answers for a role without keywords, and a strong answer to every question.
Sessions ==
    {MakeSession("Software Engineer", <<>>),
     MakeSession("Astronaut", <<ShortResponse, ShortResponse, ShortResponse>>),
     MakeSession("Software Engineer", <<ShortResponse, RamblingResponse>>),
     MakeSession("Software Engineer", <<PlainResponse, StrongResponse>>),
     MakeSession("Astronaut", <<StrongResponse, StrongResponse, PlainResponse>>),
     MakeSession("Software Engineer", [i \in 1..MaxQuestions |-> StrongResponse])}

\* interviewDuration is passed by the caller and never read by the scorer.
InterviewData(qa, tq, times, cam, mic, completed, session) ==
    [questionsAnswered |-> qa,
     totalQuestions |-> tq,
     timeSpentPerQuestion |-> times,
     cameraUsed |-> cam,
     microphoneUsed |-> mic,
     interviewCompleted |-> completed,
     selectedRole |-> session.selectedRole,
     responses |-> session.responses]

InitInterview ==
    /\ ipc = "call"
    /\ \E qa \in 0..MaxQuestions, tq \in 0..MaxQuestions, s \in Sessions,
          cam \in BOOLEAN, mic \in BOOLEAN, completed \in BOOLEAN :
           \E t \in TimeListsFor[qa] :
               interviewData = InterviewData(qa, tq, t, cam, mic, completed, s)
    /\ interviewResult = NoAnalysis
    /\ rpc = "idle"
    /\ file = NullFile
    /\ selectedRole = ""
    /\ reader = "idle"
    /\ score = 0
    /\ strengths = <<>>
    /\ improvements = <<>>
    /\ resumeResult = NoResult
    /\ WizardIdle
    /\ MinimalIdle

NextInterview == AnalyzeInterview

SpecInterview == InitInterview /\ [][NextInterview]_vars

-----------------------------------------------------------------------------
(* Both scorers: a behaviour is one call of either.                        *)

Init == InitResume \/ InitInterview

Next == NextResume \/ NextInterview

Spec == Init /\ [][Next]_vars

-----------------------------------------------------------------------------
(* Properties.                                                             *)

SubScores(r) ==
    <<r.bodyLanguageScore, r.grammarScore, r.skillsScore, r.confidenceScore>>

\* C1: every score the scorers return lies in [0, 100]: atsScore, the four
\* interview sub-scores (0..1000 in tenths) and overallScore.
C1_ScoresInRange ==
    /\ resumeResult.resolved =>
           resumeResult.atsScore >= 0 /\ resumeResult.atsScore <= 100
    /\ interviewResult.returned =>
           /\ \A i \in 1..4 : /\ SubScores(interviewResult)[i] >= 0
                              /\ SubScores(interviewResult)[i] <= 1000
           /\ interviewResult.overallScore >= 0
           /\ interviewResult.overallScore <= 100

\* C1 witness: a returned analysis whose confidence score sits at the upper
\* clamp after the completion bonus was added to it.
C1_Witness ==
    /\ interviewResult.returned
    /\ interviewResult.confidenceScore = 1000
    /\ interviewData.interviewCompleted
    /\ RateAtLeast(interviewData.questionsAnswered, interviewData.totalQuestions, 9, 10)
    /\ interviewResult.bodyLanguageScore < 1000

\* C2: overallScore is round(mean of the four returned sub-scores): it is
\* the integer n with n - 1/2 <= mean < n + 1/2 (sub-scores in tenths, so
\* the mean is their sum / 40).
C2_OverallIsRoundedMean ==
    interviewResult.returned =>
        LET total == Sum(SubScores(interviewResult))
            n == interviewResult.overallScore
        IN  40 * n - 20 <= total /\ total < 40 * n + 20

\* C2 witness: a returned analysis whose mean lies exactly half way between
\* two integers, with a sub-score that is not an integer.
C2_Witness ==
    /\ interviewResult.returned
    /\ Sum(SubScores(interviewResult)) % 40 = 20
    /\ \E i \in 1..4 : SubScores(interviewResult)[i] % 10 # 0

\* C3: a session with questionsAnswered = 0 gets 0 for all four sub-scores
\* and for overallScore, whatever its other fields are.
C3_ZeroEngagement ==
    (interviewResult.returned /\ interviewData.questionsAnswered = 0) =>
        /\ \A i \in 1..4 : SubScores(interviewResult)[i] = 0
        /\ interviewResult.overallScore = 0

\* C4: camera off gives bodyLanguageScore 0, microphone off gives
\* grammarScore 0, and either device off gives confidenceScore 0.
C4_DeviceGate ==
    interviewResult.returned =>
        /\ ~interviewData.cameraUsed => interviewResult.bodyLanguageScore = 0
        /\ ~interviewData.microphoneUsed => interviewResult.grammarScore = 0
        /\ (~interviewData.cameraUsed \/ ~interviewData.microphoneUsed) =>
               interviewResult.confidenceScore = 0

\* C4 witness: a session with the camera off and the microphone on whose
\* grammar and skills scores are not 0 (only the gated scores are forced).
C4_Witness ==
    /\ interviewResult.returned
    /\ ~interviewData.cameraUsed
    /\ interviewData.microphoneUsed
    /\ interviewResult.grammarScore > 0
    /\ interviewResult.skillsScore > 0

ScenarioInterview ==
    InterviewData(7, 7, <<35, 35, 35, 35, 35, 35, 35>>, TRUE, TRUE, TRUE,
                  MakeSession("Software Engineer", <<>>))

\* C5: the fully answered scenario session (7 of 7, 35 s each, both devices,
\* completed, no response text) gets every sub-score and the overall >= 60.
C5_ScenarioGoodBand ==
    (interviewResult.returned /\ interviewData = ScenarioInterview) =>
        /\ \A i \in 1..4 : SubScores(interviewResult)[i] >= 600
        /\ interviewResult.overallScore >= 60

ScenarioFile == MakeFile("resume_2024.pdf", 200000, ScenarioText)

Contains(seq, x) == \E i \in 1..Len(seq) : seq[i] = x

\* C6: the scenario resume (resume_2024.pdf, 200000 bytes, Software
\* Engineer, text with javascript, react, the four section names, an email
\* and a phone number) gets atsScore >= 70 with the format strength and a
\* keyword strength.
C6_ScenarioHighBand ==
    (rpc = "done" /\ file = ScenarioFile /\ selectedRole = "Software Engineer") =>
        /\ resumeResult.atsScore >= 70
        /\ Contains(resumeResult.strengths, "Acceptable file format")
        /\ \/ Contains(resumeResult.strengths, "Contains required role keywords")
           \/ Contains(resumeResult.strengths, "Excellent keyword optimization")
           \/ Contains(resumeResult.strengths, "Good keyword presence")

\* The session d with questionsAnswered set to b.
WithAnswered(d, b) == [d EXCEPT !.questionsAnswered = b]

\* The scores the completion steps of d act on: the grammar, skills and
\* confidence scores as they stand before the completion multiplier.
BeforeCompletion(d) ==
    LET start == Acc(0, <<>>, <<>>)
        responseAnalysis == analyzeResponseContent(d.responses, d.selectedRole)
    IN  [grammar |-> GrammarLengthStep(
                       GrammarIssuesStep(
                         SetScore(start, responseAnalysis.communicationScore * 10), d),
                       d),
         skills |-> SkillsDemonstrationStep(
                      SetScore(start, responseAnalysis.skillsRelevance * 10),
                      analyzeSkillsDemonstration(d.responses, d.selectedRole)),
         confidence |-> SetScore(start, responseAnalysis.confidence * 10)]

\* The completion-banded components of a session with completion rate
\* that of d: the body language band value and the scores the three
\* completion multipliers leave, each applied to the score in pre.
CompletionComponents(pre, d) ==
    <<BodyBand(Acc(0, <<>>, <<>>), d).score,
      GrammarCompletionStep(pre.grammar, d).score,
      SkillsCompletionStep(pre.skills, d).score,
      ConfidenceCompletionStep(pre.confidence, d).score>>

\* C7: answering more questions of the same session never lowers a
\* completion-banded component: for questionsAnswered = a < b <=
\* totalQuestions, all else equal, each component for b is >= that for a.
C7_CompletionMonotone ==
    interviewResult.returned =>
        LET pre == BeforeCompletion(interviewData)
            low == CompletionComponents(pre, interviewData)
        IN  \A b \in (interviewData.questionsAnswered + 1)..interviewData.totalQuestions :
                \A i \in 1..4 :
                    CompletionComponents(pre, WithAnswered(interviewData, b))[i] >= low[i]

\* C7 witness: a scored session with answers left to give, in which giving
\* all of them raises every one of the four components.
C7_Witness ==
    /\ interviewResult.returned
    /\ interviewData.questionsAnswered > 0
    /\ interviewData.questionsAnswered < interviewData.totalQuestions
    /\ LET pre == BeforeCompletion(interviewData)
       IN  \A i \in 1..4 :
               CompletionComponents(
                   pre, WithAnswered(interviewData, interviewData.totalQuestions))[i]
                   > CompletionComponents(pre, interviewData)[i]

\* C8: with a null file analyzeResume returns atsScore 0, no strengths and
\* an improvements list holding the upload prompt, for every role.
C8_NoFile ==
    (rpc = "done" /\ ~file.present) =>
        /\ resumeResult.resolved
        /\ resumeResult.atsScore = 0
        /\ resumeResult.strengths = <<>>
        /\ Contains(resumeResult.improvements,
                    "Upload a resume in PDF, DOC, or DOCX format")

\* C8 witness: the call returned for a null file and a role without profile.
C8_Witness ==
    /\ rpc = "done"
    /\ ~file.present
    /\ selectedRole \notin SupportedRoles
    /\ resumeResult.resolved

\* C9: every call of analyzeResume completes: its promise resolves, also
\* when the read of the file fails.
C9_ResumeCompletes == <>(rpc = "done" /\ resumeResult.resolved)

\* C10 as claimed: for a file of another extension than pdf, doc, docx the
\* later steps still run, so the result carries the message the naming step
\* always leaves (a strength or an improvement).
C10_GateAndContinue ==
    (rpc = "done" /\ file.present
       /\ FileExtension(file.name) \notin {".pdf", ".doc", ".docx"}) =>
        \/ Contains(resumeResult.strengths, "Professional filename")
        \/ Contains(resumeResult.improvements,
                    "MAJOR: Filename should contain 'resume' or 'CV' for ATS recognition")

\* C10 amended: the format gate is gate-and-stop.  For a file of another
\* extension than pdf, doc, docx the call returns at once: atsScore 0, no
\* strengths, exactly the two format improvements, and the file is not read.
C10_GateAndStop ==
    (rpc = "done" /\ file.present
       /\ FileExtension(file.name) \notin {".pdf", ".doc", ".docx"}) =>
        /\ resumeResult.atsScore = 0
        /\ resumeResult.feedback = "Resume format incompatible with ATS systems"
        /\ resumeResult.strengths = <<>>
        /\ resumeResult.improvements =
               <<"CRITICAL: File format rejected by ATS - use PDF, DOC, or DOCX only",
                 "ATS systems auto-reject non-standard formats">>
        /\ reader = "idle"

\* C10 witness: the call returned for a file without extension whose name,
\* size and text would have earned points in the later steps.
C10_Witness ==
    /\ rpc = "done"
    /\ file.present
    /\ file.name = "portfolio"
    /\ file.size = 200000
    /\ file.text = FullText
    /\ selectedRole = "Software Engineer"

-----------------------------------------------------------------------------
(* analyzeResume: keywords, missing text, feedback bands.                  *)

\* requiredFound of the call in the current state.
RequiredFound ==
    KeywordsFound(RoleData(selectedRole).required, ToLowerCase(file.text),
                  ToLowerCase(file.name))

KeywordSteps(acc) ==
    LET Steps(lowerText, fileName) ==
            ExclusionStep(
              PreferredStep(
                RequiredStep(acc, selectedRole, lowerText, fileName),
                selectedRole, lowerText, fileName),
              selectedRole, lowerText, fileName)
    IN  Steps(ToLowerCase(file.text), ToLowerCase(file.name))

\* C12: for a role without profile the keyword steps leave the score
\* accumulated from format, size and naming unchanged and add exactly one
\* improvement.
C12_UnknownRoleKeywordFrame ==
    (rpc = "done" /\ reader = "loaded" /\ selectedRole \notin SupportedRoles) =>
        LET Framed(before, after) ==
                /\ after.score = before.score
                /\ after.strengths = before.strengths
                /\ Len(after.improvements) = Len(before.improvements) + 1
            Checked(before) == Framed(before, KeywordSteps(before))
        IN  Checked(ScoreFileMetadata(file))

\* C13: without extracted text the section and contact steps add no penalty
\* improvement to the result.
C13_NoTextSkipsTextSteps ==
    (rpc = "done" /\ reader = "loaded" /\ file.text = "") =>
        /\ ~Contains(resumeResult.improvements,
               "CRITICAL: Missing essential resume sections (Experience, Education, Skills, Contact)")
        /\ ~Contains(resumeResult.improvements,
               "CRITICAL: No contact information detected")
        /\ ~Contains(resumeResult.improvements,
               "MAJOR: Missing email or phone number")

\* C17: the feedback of every result for a non-null file is the banded
\* template of its atsScore, so equal scores carry equal templates.
C17_FeedbackByBand ==
    (rpc = "done" /\ file.present) =>
        resumeResult.feedback = ResumeFeedback(resumeResult.atsScore)


-----------------------------------------------------------------------------
(* analyzeInterviewPerformance: rates, averages, integrality, rushing.     *)

\* C14: with totalQuestions = 0 the completion rate counts as 0, so a session
\* with answers and both devices is scored in the lowest completion band of
\* every sub-score: the result carries the lowest-band message of the body
\* language, grammar, skills and confidence blocks.
C14_ZeroTotalLowestBand ==
    (/\ interviewResult.returned
     /\ interviewData.totalQuestions = 0
     /\ interviewData.questionsAnswered > 0
     /\ interviewData.cameraUsed
     /\ interviewData.microphoneUsed) =>
        /\ Contains(interviewResult.improvements,
               "SEVERE: Answered <30% questions - appears uninterested or unprepared")
        /\ Contains(interviewResult.improvements,
               "CRITICAL: Low completion severely limits communication assessment")
        /\ Contains(interviewResult.improvements,
               "SEVERE: Insufficient responses to evaluate competency")
        /\ Contains(interviewResult.improvements,
               "SEVERE: Very low completion suggests extreme nervousness")

\* C15: with fewer timing entries than answers the average used is the sum
\* of the listed times over questionsAnswered: when that quotient is below
\* 30 s the skills block reports one of its two depth findings.
C15_MissingTimesCountAsZero ==
    (/\ interviewResult.returned
     /\ interviewData.questionsAnswered > 0
     /\ Len(interviewData.timeSpentPerQuestion) > 0
     /\ Len(interviewData.timeSpentPerQuestion) < interviewData.questionsAnswered
     /\ Sum(interviewData.timeSpentPerQuestion) < 30 * interviewData.questionsAnswered) =>
        \/ Contains(interviewResult.improvements,
               "MAJOR: Responses too brief to show expertise depth")
        \/ Contains(interviewResult.improvements,
               "WARNING: Provide more detailed technical examples")

\* C16: every score of a returned analysis is an integer: each sub-score, in
\* tenths, is a multiple of 10 (overallScore is an integer by construction).
C16_ScoresAreIntegers ==
    interviewResult.returned =>
        \A i \in 1..4 : SubScores(interviewResult)[i] % 10 = 0

\* The session d with every listed time replaced by 35 s (nothing rushed).
Unrushed(d) ==
    [d EXCEPT !.timeSpentPerQuestion =
                  [i \in 1..Len(d.timeSpentPerQuestion) |-> 35]]

\* C18: when the rushed answers (< 8 s) exceed the fraction of
\* questionsAnswered and the average time is in the acceptable range, each
\* of the four sub-scores is lower than that of the same session without
\* rushed answers, unless the latter is already 0.
C18_RushPenaltyOnEverySubScore ==
    (/\ interviewResult.returned
     /\ LET times == interviewData.timeSpentPerQuestion
        IN  /\ CountWhere([i \in 1..Len(times) |-> times[i] < 8]) * 10
                   > interviewData.questionsAnswered * 4
            /\ ~AvgBelow(times, 30)
            /\ ~AvgAbove(times, 120)) =>
        LET Lower(rushed, calm) ==
                \A i \in 1..4 : calm[i] > 0 => rushed[i] < calm[i]
        IN  Lower(SubScores(interviewResult),
                  SubScores(analyzeInterviewPerformance(Unrushed(interviewData))))

\* The session d with the device flags set to cam and mic.
WithDevices(d, cam, mic) ==
    [d EXCEPT !.cameraUsed = cam, !.microphoneUsed = mic]

\* C19: the sub-scores do not read each other's device flag: the body
\* language block gives the session that differs only in microphoneUsed the
\* bodyLanguageScore returned, the grammar block gives the session that
\* differs only in cameraUsed the grammarScore returned, and the skills
\* block gives every session that differs in the flags only the skillsScore
\* returned.
C19_DeviceFlagIndependence ==
    interviewResult.returned =>
        LET Agree(responseAnalysis, otherMic, otherCam, otherBoth) ==
                /\ BodyLanguageBlock(Acc(0, <<>>, <<>>), otherMic,
                                     responseAnalysis).score
                       = interviewResult.bodyLanguageScore
                /\ GrammarBlock(Acc(0, <<>>, <<>>), otherCam,
                                responseAnalysis).score
                       = interviewResult.grammarScore
                /\ \A other \in {otherMic, otherCam, otherBoth} :
                       SkillsBlock(Acc(0, <<>>, <<>>), other,
                                   responseAnalysis).score
                           = interviewResult.skillsScore
            Compare(d) ==
                Agree(analyzeResponseContent(d.responses, d.selectedRole),
                      WithDevices(d, d.cameraUsed, ~d.microphoneUsed),
                      WithDevices(d, ~d.cameraUsed, d.microphoneUsed),
                      WithDevices(d, ~d.cameraUsed, ~d.microphoneUsed))
        IN  Compare(interviewData)

\* C19 witness: a session with the camera on and the microphone off whose
\* body language and skills scores are not 0, though its grammar score is.
C19_Witness ==
    /\ interviewResult.returned
    /\ interviewData.cameraUsed
    /\ ~interviewData.microphoneUsed
    /\ interviewResult.bodyLanguageScore > 0
    /\ interviewResult.skillsScore > 0
    /\ interviewResult.grammarScore = 0

-----------------------------------------------------------------------------
(* Repeated calls: a scorer that has returned is called again with the     *)
(* arguments of the call before.                                           *)

\* analyzeResume(file, selectedRole) once more.  resumeResult keeps what the
\* call before returned until this call returns; score, strengths and
\* improvements keep what the locals of the call before held.
AnalyzeResumeAgain ==
    /\ rpc = "done"
    /\ rpc' = "call"
    /\ UNCHANGED <<file, selectedRole, reader, score, strengths, improvements,
                   resumeResult, interviewVars, wizardVars, minimalVars>>

\* analyzeInterviewPerformance(interviewData) once more.
AnalyzeInterviewAgain ==
    /\ ipc = "done"
    /\ ipc' = "call"
    /\ UNCHANGED <<interviewData, interviewResult, resumeVars, wizardVars,
                   minimalVars>>

NextRepeat == Next \/ AnalyzeResumeAgain \/ AnalyzeInterviewAgain

SpecRepeat == Init /\ [][NextRepeat]_vars

-----------------------------------------------------------------------------
(* InterviewWizard: the interview step.  A handler is a closure of the     *)
(* render that created it: it reads the useState values of that render     *)
(* and queues updates (prev => ...) that apply to the latest values.  A    *)
(* button runs the handler of the latest render; the interval of           *)
(* startCountdown runs the nextQuestion of the render whose startInterview *)
(* made it.  A behaviour is one interview: Start Interview is pressed      *)
(* once, the camera stays on until endInterview stops it, and the buttons  *)
(* are pressed PressAfter seconds into a question.  The cleanup of the     *)
(* [cameraStream] effect (lines 350-358) also clears the interval; it      *)
(* runs when the stream changes or the component unmounts, which does not  *)
(* happen between Start Interview and endInterview here.                   *)

\* The useState values when the interview step is first shown, the camera
\* enabled (the Start Interview button is disabled without it).
WizardMounted(mic) ==
    [mounted |-> TRUE,
     currentStep |-> "interview",
     isInterviewActive |-> FALSE,
     currentQuestionIndex |-> 0,
     timeRemaining |-> 90,
     timeSpentPerQuestion |-> <<>>,
     questionsAnswered |-> 0,
     interviewCompleted |-> FALSE,
     isCameraOn |-> TRUE,
     isMicOn |-> mic,
     mockQuestions |-> WizardQuestions]     \* mockQuestions.length

\* setTimeSpentPerQuestion(prev => [...prev, timeSpent])
Recorded(w, timeSpent) ==
    [w EXCEPT !.timeSpentPerQuestion =
                  IF Len(@) < MaxRecorded THEN Append(@, timeSpent) ELSE @]

\* setQuestionsAnswered(prev => prev + 1)
Answered(w) == [w EXCEPT !.questionsAnswered = Min(@ + 1, MaxRecorded)]

\* The argument endInterview of render r passes to
\* analyzeInterviewPerformance (responses is omitted).
HandedMetrics(r) ==
    InterviewData(r.questionsAnswered, r.mockQuestions, r.timeSpentPerQuestion,
                  r.isCameraOn, r.isMicOn,
                  r.currentQuestionIndex >= r.mockQuestions - 1,
                  MakeSession(selectedRole, <<>>))

\* endInterview of render r, its updates queued after those that led to w.
endInterview(w, r) ==
    LET Final(v) ==
            IF r.currentQuestionIndex < r.mockQuestions
            THEN IF 90 - r.timeRemaining > 10
                 THEN Answered(Recorded(v, 90 - r.timeRemaining))
                 ELSE Recorded(v, 90 - r.timeRemaining)
            ELSE v
        \* stopCamera()
        Stopped(v) ==
            IF r.isCameraOn
            THEN [v EXCEPT !.isCameraOn = FALSE, !.isMicOn = FALSE]
            ELSE v
    IN  /\ wizard' = Stopped(Final(
                       [w EXCEPT !.isInterviewActive = FALSE,
                                 !.interviewCompleted =
                                     (r.currentQuestionIndex = r.mockQuestions - 1)]))
        /\ countdownTimer' =
               IF countdownTimer = "running" THEN "cleared" ELSE countdownTimer
        /\ analyzeResume
        /\ interviewData' = HandedMetrics(r)
        /\ interviewResult' = analyzeInterviewPerformance(HandedMetrics(r))
        /\ ipc' = "done"
        /\ analysisTimeout' = "pending"
        /\ UNCHANGED <<file, selectedRole, startRender, startTimeout, minimalVars>>

\* nextQuestion of render r, its updates queued after those that led to w.
nextQuestion(w, r) ==
    IF r.currentQuestionIndex < r.mockQuestions - 1
    THEN /\ wizard' = [Answered(Recorded(w, 90 - r.timeRemaining))
                          EXCEPT !.currentQuestionIndex = Min(@ + 1, MaxRecorded),
                                 !.timeRemaining = 90]
         /\ UNCHANGED <<resumeVars, interviewVars, startRender, startTimeout,
                        countdownTimer, analysisTimeout, minimalVars>>
    ELSE endInterview(Answered(Recorded(w, 90 - r.timeRemaining)), r)

\* Start Interview: startCamera() is awaited (the stream is granted or
\* not), then the rest of startInterview runs in the render of the press.
StartInterview ==
    /\ wizard.mounted
    /\ wizard.currentStep = "interview"
    /\ ~wizard.isInterviewActive
    /\ wizard.isCameraOn
    /\ startTimeout = "none"
    /\ \E granted \in BOOLEAN :
           wizard' = [wizard EXCEPT !.isInterviewActive = TRUE,
                                    !.currentQuestionIndex = 0,
                                    !.isMicOn = IF granted THEN TRUE ELSE @]
    /\ startRender' = wizard
    /\ startTimeout' = "pending"
    /\ UNCHANGED <<resumeVars, interviewVars, countdownTimer, analysisTimeout,
                   minimalVars>>

\* The 2-second timeout of startInterview fires: startCountdown().
StartDelayElapsed ==
    /\ startTimeout = "pending"
    /\ startTimeout' = "fired"
    /\ wizard' = [wizard EXCEPT !.timeRemaining = 90]
    /\ countdownTimer' = "running"
    /\ UNCHANGED <<resumeVars, interviewVars, startRender, analysisTimeout,
                   minimalVars>>

\* One run of the interval callback of startCountdown.
CountdownTick ==
    /\ countdownTimer = "running"
    /\ IF wizard.timeRemaining <= 1
       THEN nextQuestion([wizard EXCEPT !.timeRemaining = 90], startRender)
       ELSE /\ wizard' = [wizard EXCEPT !.timeRemaining = @ - 1]
            /\ UNCHANGED <<resumeVars, interviewVars, startRender, startTimeout,
                           countdownTimer, analysisTimeout, minimalVars>>

\* Seconds into a question at which the user presses a button.
PressAfter == {0, 5, 30}

\* The buttons are rendered while isInterviewActive.
ButtonsShown ==
    /\ wizard.mounted
    /\ wizard.currentStep = "interview"
    /\ wizard.isInterviewActive
    /\ 90 - wizard.timeRemaining \in PressAfter

PressNextQuestion == ButtonsShown /\ nextQuestion(wizard, wizard)

PressEndInterview == ButtonsShown /\ endInterview(wizard, wizard)

\* The 1-second timeout of endInterview fires: setCurrentStep('analysis').
ShowAnalysis ==
    /\ analysisTimeout = "pending"
    /\ analysisTimeout' = "fired"
    /\ wizard' = [wizard EXCEPT !.currentStep = "analysis"]
    /\ UNCHANGED <<resumeVars, interviewVars, startRender, startTimeout,
                   countdownTimer, minimalVars>>

InitWizard ==
    /\ \E mic \in BOOLEAN : wizard = WizardMounted(mic)
    /\ startRender = [mounted |-> FALSE]
    /\ startTimeout = "none"
    /\ countdownTimer = "none"
    /\ analysisTimeout = "none"
    /\ file \in {NullFile, ScenarioFile}
    /\ selectedRole = "Software Engineer"
    /\ rpc = "idle"
    /\ reader = "idle"
    /\ score = 0
    /\ strengths = <<>>
    /\ improvements = <<>>
    /\ resumeResult = NoResult
    /\ ipc = "idle"
    /\ interviewData = NoInterviewData
    /\ interviewResult = NoAnalysis
    /\ MinimalIdle

NextWizard ==
    \/ StartInterview
    \/ StartDelayElapsed
    \/ CountdownTick
    \/ PressNextQuestion
    \/ PressEndInterview
    \/ ShowAnalysis
    \/ ReaderOnLoad
    \/ ReaderOnError

SpecWizard == InitWizard /\ [][NextWizard]_vars

-----------------------------------------------------------------------------
(* InterviewWizard: properties.                                            *)

\* C21: in the wizard, after any sequence of Next Question presses, End
\* Interview presses and countdown expiries, questionsAnswered is at most
\* the number of questions of the session.
C21_AnsweredWithinTotal ==
    wizard.mounted => wizard.questionsAnswered <= wizard.mockQuestions

\* C27: when the last question of a session whose earlier questions were
\* all answered is answered with Next Question (the step records the
\* answer and ends the interview), the metrics handed to the scorer hold
\* questionsAnswered = N and N per-question times.
C27_AllAnswersHanded ==
    [][(/\ wizard.isInterviewActive
        /\ wizard.currentQuestionIndex = wizard.mockQuestions - 1
        /\ wizard.questionsAnswered = wizard.mockQuestions - 1
        /\ Len(wizard.timeSpentPerQuestion) = wizard.mockQuestions - 1
        /\ ~wizard'.isInterviewActive
        /\ Len(wizard'.timeSpentPerQuestion)
               = Len(wizard.timeSpentPerQuestion) + 2) =>
           /\ interviewData'.questionsAnswered = wizard.mockQuestions
           /\ Len(interviewData'.timeSpentPerQuestion) = wizard.mockQuestions
           /\ interviewData'.totalQuestions = wizard.mockQuestions]_vars

\* C28: once endInterview has run (it leaves its timeout behind) the
\* countdown interval is not running, so that no tick can change the
\* wizard's state after the interview has ended.
C28_NoCountdownAfterEnd ==
    analysisTimeout # "none" => countdownTimer # "running"

\* The wizard with a user who starts the interview and then presses
\* nothing: the timers run whenever they can.
NextWizardIdle == StartInterview \/ StartDelayElapsed \/ CountdownTick

SpecWizardIdle ==
    /\ InitWizard
    /\ [][NextWizardIdle]_vars
    /\ WF_vars(StartDelayElapsed)
    /\ WF_vars(CountdownTick)

\* C29: with no button pressed after Start Interview, the countdown
\* expiries lead to the end of the interview: an active interview is
\* eventually not active any more.
C29_ExpiriesEndInterview ==
    (wizard.mounted /\ wizard.isInterviewActive) ~> ~wizard.isInterviewActive

-----------------------------------------------------------------------------
(* The scorers: sizes, metrics, sessions without response text, bands.     *)

\* The atsScore analyzeResume resolves with for file f and the given role,
\* the text of f being read.
ResumeScore(f, role) ==
    IF ~FormatAllowed(FileExtension(f.name)) THEN FormatRejected.atsScore
    ELSE IF f.size > 2000000 THEN SizeRejected.atsScore
    ELSE ScoreContent(ScoreFileMetadata(f), f, role, f.text).score

\* C22: a file of more than 2,000,000 bytes never gets a higher atsScore
\* than the file of the same name and text, for the same role, with a size
\* in the rewarded range 50,000..500,000.
C22_OversizeNotAbove ==
    (rpc = "done" /\ file.present /\ file.size > 2000000) =>
        \A s \in {z \in ResumeSizes : z >= 50000 /\ z <= 500000} :
            resumeResult.atsScore
                <= ResumeScore(MakeFile(file.name, s, file.text), selectedRole)

\* The five metrics of a response analysis (in tenths).
Metrics(m) ==
    <<m.qualityScore, m.communicationScore, m.skillsRelevance, m.clarity,
      m.confidence>>

\* C23: after every prefix of the responses of a session each of the five
\* metrics of analyzeResponseContent lies in [0, 10] (0..100 in tenths), and
\* for no responses all five are 0.
C23_MetricsInRange ==
    interviewResult.returned =>
        /\ \A k \in 0..Len(interviewData.responses) :
               \A i \in 1..5 :
                   Metrics(analyzeResponseContent(
                               SubSeq(interviewData.responses, 1, k),
                               interviewData.selectedRole))[i] \in 0..100
        /\ analyzeResponseContent(<<>>, interviewData.selectedRole) = ZeroMetrics

\* C23 witness: a scored session with responses that leave a metric at a
\* bound of the clamps, 0 or 10.
C23_Witness ==
    /\ interviewResult.returned
    /\ Len(interviewData.responses) > 0
    /\ \E i \in 1..5 :
           Metrics(analyzeResponseContent(interviewData.responses,
                                          interviewData.selectedRole))[i]
               \in {0, 100}

\* C25: for a session without responses grammarScore and skillsScore are 0,
\* bodyLanguageScore is at most 60, confidenceScore at most 15 and
\* overallScore at most 19.
C25_NoResponsesCeiling ==
    (interviewResult.returned /\ interviewData.responses = <<>>) =>
        /\ interviewResult.grammarScore = 0
        /\ interviewResult.skillsScore = 0
        /\ interviewResult.bodyLanguageScore <= 600
        /\ interviewResult.confidenceScore <= 150
        /\ interviewResult.overallScore <= 19

\* C25 witness: a session without responses that reaches all three
\* ceilings.
C25_Witness ==
    /\ interviewResult.returned
    /\ interviewData.responses = <<>>
    /\ interviewData.questionsAnswered > 0
    /\ interviewResult.bodyLanguageScore = 600
    /\ interviewResult.confidenceScore = 150
    /\ interviewResult.overallScore = 19

\* C26: some input gets an atsScore of 75 or more from analyzeResume: once a
\* call has resolved, either its own result or the result for another file
\* and role stands in the GOOD band.
C26_GoodBandReachable ==
    resumeResult.resolved =>
        \/ resumeResult.atsScore >= 75
        \/ \E f \in ResumeFiles \ {NullFile}, role \in ResumeRoles :
               ResumeScore(f, role) >= 75

-----------------------------------------------------------------------------
(* The standalone page, src/public/minimal.js.  A behaviour is one         *)
(* interview, from the press of the start button to the results screen;    *)
(* restart() and the screens before the interview are left out.  The       *)
(* buttons of the interview screen call nextQuestion(), endInterview(),    *)
(* toggleCamera() and toggleMic().  An interval is live from setInterval   *)
(* to the clearInterval of its id; state.timer holds the id of the latest  *)
(* one only.  strengths and improvements are not modelled.                 *)

\* Seconds between startQuestionTimer and a press of the next button.
MinimalElapsed == {5, 20}

\* Ticks a live interval is followed for after timeLeft has reached 0.
MaxOverrun == 2

\* analyzePerformance: the four sub-scores, their rounded mean and the
\* feedback of its band.
analyzePerformance(st) ==
    LET Below(num, den) ==
            RateBelow(st.questionsAnswered, st.questions, num, den)
        bodyLanguageScore ==
            IF ~st.cameraUsed THEN 0
            ELSE IF st.questionsAnswered = 0 THEN 0
            ELSE IF Below(5, 10) THEN 5
            ELSE IF Below(8, 10) THEN 25
            ELSE 60
        grammarScore ==
            IF ~st.microphoneUsed THEN 0
            ELSE IF st.questionsAnswered = 0 THEN 0
            ELSE IF AvgBelow(st.timeSpentPerQuestion, 15) THEN 10
            ELSE 45
        skillsScore ==
            IF st.questionsAnswered = 0 THEN 0
            ELSE IF Below(7, 10) THEN 15
            ELSE 50
        confidenceScore ==
            IF ~st.cameraUsed \/ ~st.microphoneUsed THEN 5
            ELSE IF Below(5, 10) THEN 10
            ELSE 40
        Result(overallScore) ==
            [present |-> TRUE,
             overallScore |-> overallScore,
             bodyLanguageScore |-> bodyLanguageScore,
             grammarScore |-> grammarScore,
             skillsScore |-> skillsScore,
             confidenceScore |-> confidenceScore,
             feedback |->
                 IF overallScore = 0
                 THEN "No interview participation detected. Please restart with camera and microphone enabled."
                 ELSE IF overallScore < 15
                 THEN "Extremely poor performance. Major improvements needed."
                 ELSE IF overallScore < 30
                 THEN "Very poor interview performance. Focus on preparation and engagement."
                 ELSE IF overallScore < 60
                 THEN "Below average performance with significant room for improvement."
                 ELSE "Good performance! Continue practicing to improve further."]
    \* Math.round of a quarter: halves go up.
    IN  Result((bodyLanguageScore + grammarScore + skillsScore
                + confidenceScore + 2) \div 4)

\* startQuestionTimer: a new interval, whose id replaces the one in
\* state.timer; an interval that was not cleared stays live.
startQuestionTimer(st) ==
    /\ state' = [st EXCEPT !.timeLeft = 30, !.startTime = TRUE,
                           !.timer = "live"]
    /\ leakedTimers' = IF st.timer = "live" THEN leakedTimers + 1
                       ELSE leakedTimers

\* endInterview, entered with state st: clears the interval of state.timer,
\* stops the tracks, shows the results of analyzePerformance.
MinimalEndInterview(st) ==
    LET Ended(v) == [v EXCEPT !.currentStep = "results"]
    IN  /\ state' = Ended([st EXCEPT !.timer = IF @ = "live" THEN "cleared"
                                               ELSE @])
        /\ analysis' = analyzePerformance(Ended(st))
        /\ UNCHANGED leakedTimers

\* nextQuestion, entered with state st, timeSpent seconds after
\* state.startTime.
MinimalNextQuestion(st, timeSpent) ==
    LET Stopped(v) == [v EXCEPT !.timer = IF @ = "live" THEN "cleared" ELSE @]
        Timed(v) ==
            IF v.startTime
            THEN [v EXCEPT !.timeSpentPerQuestion = Append(@, timeSpent),
                           !.questionsAnswered = @ + 1]
            ELSE v
        Advanced(v) == [v EXCEPT !.currentQuestion = @ + 1]
        Shown(v) ==
            IF v.currentQuestion >= v.questions
            THEN MinimalEndInterview(v)
            ELSE startQuestionTimer(v) /\ UNCHANGED analysis
    IN  Shown(Advanced(Timed(Stopped(st))))

\* startInterview up to its await: generateQuestions (2 personal questions
\* and 3 of the role, none for a role without questions), goToStep, and the
\* getUserMedia request of requestCamera.
MinimalStartInterview ==
    /\ state.loaded
    /\ state.currentStep = "welcome"
    /\ cameraRequest = "none"
    /\ state' = [state EXCEPT
                    !.questions =
                        IF state.selectedRole \in
                               {"Software Engineer", "Product Manager",
                                "Data Scientist", "UX Designer",
                                "Sales Representative", "Marketing Manager"}
                        THEN 2 + 3 ELSE 2,
                    !.currentStep = "interview"]
    /\ cameraRequest' = "pending"
    /\ UNCHANGED <<leakedTimers, analysis, resumeVars, interviewVars,
                   wizardVars>>

\* The getUserMedia promise settles: requestCamera takes the stream or
\* logs the denial, and startInterview goes on to startQuestionTimer.
RequestCameraSettles ==
    /\ cameraRequest = "pending"
    /\ cameraRequest' = "settled"
    /\ \E granted \in BOOLEAN :
           startQuestionTimer(IF granted
                              THEN [state EXCEPT !.stream = TRUE,
                                                 !.cameraUsed = TRUE,
                                                 !.microphoneUsed = TRUE]
                              ELSE state)
    /\ UNCHANGED <<analysis, resumeVars, interviewVars, wizardVars>>

\* The callback of a live interval.  Two live intervals bring timeLeft to 0
\* in half the time.
QuestionTimerTick ==
    /\ state.loaded
    /\ state.timer = "live" \/ leakedTimers > 0
    /\ state.timeLeft > -MaxOverrun
    /\ IF state.timeLeft - 1 <= 0
       THEN MinimalNextQuestion([state EXCEPT !.timeLeft = @ - 1],
                                IF state.timer = "live" /\ leakedTimers > 0
                                THEN 15 ELSE 30)
       ELSE /\ state' = [state EXCEPT !.timeLeft = @ - 1]
            /\ UNCHANGED <<leakedTimers, analysis>>
    /\ UNCHANGED <<cameraRequest, resumeVars, interviewVars, wizardVars>>

\* The next button of the interview screen.
MinimalPressNext ==
    /\ state.loaded
    /\ state.currentStep = "interview"
    /\ \E timeSpent \in MinimalElapsed : MinimalNextQuestion(state, timeSpent)
    /\ UNCHANGED <<cameraRequest, resumeVars, interviewVars, wizardVars>>

\* The end button of the interview screen.
MinimalPressEnd ==
    /\ state.loaded
    /\ state.currentStep = "interview"
    /\ MinimalEndInterview(state)
    /\ UNCHANGED <<cameraRequest, resumeVars, interviewVars, wizardVars>>

toggleCamera ==
    /\ state.loaded
    /\ state.currentStep = "interview"
    /\ state.stream
    /\ state' = [state EXCEPT !.cameraUsed = ~@]
    /\ UNCHANGED <<cameraRequest, leakedTimers, analysis, resumeVars,
                   interviewVars, wizardVars>>

toggleMic ==
    /\ state.loaded
    /\ state.currentStep = "interview"
    /\ state.stream
    /\ state' = [state EXCEPT !.microphoneUsed = ~@]
    /\ UNCHANGED <<cameraRequest, leakedTimers, analysis, resumeVars,
                   interviewVars, wizardVars>>

\* The page with a role selected: let state, and state.selectedRole.
InitMinimal ==
    /\ \E role \in {"Software Engineer", "Astronaut"} :
           state = [loaded |-> TRUE,
                    currentStep |-> "welcome",
                    selectedRole |-> role,
                    currentQuestion |-> 0,
                    questionsAnswered |-> 0,
                    timeSpentPerQuestion |-> <<>>,
                    cameraUsed |-> FALSE,
                    microphoneUsed |-> FALSE,
                    stream |-> FALSE,
                    timer |-> "null",
                    timeLeft |-> 30,
                    startTime |-> FALSE,
                    questions |-> 0]
    /\ cameraRequest = "none"
    /\ leakedTimers = 0
    /\ analysis = [present |-> FALSE]
    /\ WizardIdle
    /\ file = NullFile
    /\ selectedRole = "Software Engineer"
    /\ rpc = "idle"
    /\ reader = "idle"
    /\ score = 0
    /\ strengths = <<>>
    /\ improvements = <<>>
    /\ resumeResult = NoResult
    /\ ipc = "idle"
    /\ interviewData = NoInterviewData
    /\ interviewResult = NoAnalysis

NextMinimal ==
    \/ MinimalStartInterview
    \/ RequestCameraSettles
    \/ QuestionTimerTick
    \/ MinimalPressNext
    \/ MinimalPressEnd
    \/ toggleCamera
    \/ toggleMic

SpecMinimal == InitMinimal /\ [][NextMinimal]_vars

\* C24: when analyzePerformance has run with state.questionsAnswered = 0,
\* the four sub-scores and overallScore are 0, whatever the device flags.
\* (questionsAnswered never decreases and the flags do not change on the
\* results screen, so the shown analysis is the one of the current state.)
C24_ZeroAnsweredAllZero ==
    (analysis.present /\ state.questionsAnswered = 0) =>
        /\ analysis.bodyLanguageScore = 0
        /\ analysis.grammarScore = 0
        /\ analysis.skillsScore = 0
        /\ analysis.confidenceScore = 0
        /\ analysis.overallScore = 0

\* C30: at most one question interval is live at any time, and
\* state.questionsAnswered never exceeds state.questions.length.
C30_AtMostOneTimer ==
    state.loaded =>
        /\ leakedTimers + (IF state.timer = "live" THEN 1 ELSE 0) <= 1
        /\ state.currentStep # "welcome" =>
               state.questionsAnswered <= state.questions
=============================================================================
